---- MODULE Spec2Model ----
(***************************************************************************)
(* HLS downloader (src/src/download.py, src/main.py): playlist parsing,    *)
(* variant selection, encryption probe, segment fetch with retries and the *)
(* tiered retrieval strategy of the download entry points.                 *)
(***************************************************************************)
EXTENDS Integers, Sequences, FiniteSets, TLC

VARIABLES
    content,    \* playlist text handed to the parsing functions (top-level playlist)
    net,        \* what http_get answers for every playlist URL of the download
    ret,        \* per function: the value returned / exception raised / URLs fetched
    td,         \* try_download: the activation record of one call
    dl,         \* one run of a download entry point (main / download_single_episode)
    pool,       \* one call of download_segments_concurrent and the segments directory
    hdr,        \* one construction of the request headers (build_headers and its wrapper)
    tm,         \* one call of download_template_mode and its output directory
    am,         \* main.py anime mode: the download/upload loop and download.json
    ad,         \* anime_downloader.py: one run of run_downloader
    fa,         \* anime_fetcher.py: one call of fetch_all_anime
    tg          \* telegram.py: one run of the upload loop

parseVars == <<content, net, ret>>
vars == <<content, net, ret, td, dl, pool, hdr, tm, am, ad, fa, tg>>

(***************************************************************************)
(* Bounds of the model                                                     *)
(***************************************************************************)
MaxLines == 3          \* lines of a generated media playlist text
MaxVariants == 3       \* variant blocks of a generated master playlist
MaxChainVariants == 2  \* variant blocks of a master playlist with its media playlists
MaxRetries == 3        \* largest retry count given to try_download
MaxSegments == 5       \* segments of the playlist of one download run

(***************************************************************************)
(* Text: characters, lines, URLs                                           *)
(***************************************************************************)
Digits == {"0", "1", "2", "3", "4", "5", "6", "7", "8", "9"}

DigitVal(c) ==
    CASE c = "0" -> 0 [] c = "1" -> 1 [] c = "2" -> 2 [] c = "3" -> 3 [] c = "4" -> 4
      [] c = "5" -> 5 [] c = "6" -> 6 [] c = "7" -> 7 [] c = "8" -> 8 [] c = "9" -> 9

\* the longest run of decimal digits a text starts with: what (\d+) captures there
RECURSIVE DigitRun(_)
DigitRun(s) ==
    IF s = <<>> \/ Head(s) \notin Digits THEN <<>>
    ELSE <<Head(s)>> \o DigitRun(Tail(s))

\* the longest run of the letter d a text starts with: what d+ captures there
RECURSIVE LetterDRun(_)
LetterDRun(s) ==
    IF s = <<>> \/ Head(s) # "d" THEN <<>>
    ELSE <<Head(s)>> \o LetterDRun(Tail(s))

\* int() of a run of decimal digits
RECURSIVE IntOf(_)
IntOf(s) ==
    IF s = <<>> THEN 0
    ELSE IntOf(SubSeq(s, 1, Len(s) - 1)) * 10 + DigitVal(s[Len(s)])

\* A URL is a directory (path components) and a file name; a reference written in a
\* playlist line is either absolute or relative to the directory of the base URL.
Url(dir, file) == [dir |-> dir, file |-> file]
Ref(abs, dir, file) == [abs |-> abs, dir |-> dir, file |-> file]

urljoin(base, ref) ==
    IF ref.abs THEN Url(ref.dir, ref.file)
    ELSE Url(base.dir \o ref.dir, ref.file)

NoRef == Ref(FALSE, <<>>, "")

\* A line of playlist text.  lead: the line starts with white space; tag: the first
\* token of the stripped line ("" for a blank line, "uri" for a content line);
\* bw / res: the text that follows BANDWIDTH= / RESOLUTION= in the line;
\* method: the text that follows METHOD= ("" when the line has no METHOD field);
\* quoted: the line carries the text METHOD=NONE inside a quoted attribute value.
Line(lead, tag, bw, res, method, quoted, ref) ==
    [lead |-> lead, tag |-> tag, bw |-> bw, res |-> res, method |-> method,
     quoted |-> quoted, ref |-> ref]

Blank == Line(FALSE, "", <<>>, <<>>, "", FALSE, NoRef)
Comment(tag) == Line(FALSE, tag, <<>>, <<>>, "", FALSE, NoRef)
StreamInf(bw, res) == Line(FALSE, "#EXT-X-STREAM-INF", bw, res, "", FALSE, NoRef)
KeyLine(method, quoted) == Line(FALSE, "#EXT-X-KEY", <<>>, <<>>, method, quoted, NoRef)
Content(ref) == Line(FALSE, "uri", <<>>, <<>>, "", FALSE, ref)
Indented(line) == [line EXCEPT !.lead = TRUE]

HashTags == {"#EXTM3U", "#EXTINF", "#EXT-X-ENDLIST", "#EXT-X-STREAM-INF", "#EXT-X-KEY"}

\* str.strip() of a line, and the tests the code makes on lines
strip(line) == [line EXCEPT !.lead = FALSE]
IsEmpty(line) == line.tag = ""
startswith(line, prefix) ==
    /\ ~line.lead
    /\ IF prefix = "#" THEN line.tag \in HashTags ELSE line.tag = prefix
\* the test  "METHOD=NONE" in line
ContainsMethodNone(line) == line.method = "NONE" \/ line.quoted

\* [line.strip() for line in content.splitlines() if line.strip()]
RECURSIVE StrippedLines(_)
StrippedLines(text) ==
    IF text = <<>> THEN <<>>
    ELSE IF IsEmpty(strip(Head(text))) THEN StrippedLines(Tail(text))
    ELSE <<strip(Head(text))>> \o StrippedLines(Tail(text))

\* any(line.startswith("#EXT-X-STREAM-INF") for line in lines)
IsMaster(lines) == \E i \in 1..Len(lines) : startswith(lines[i], "#EXT-X-STREAM-INF")

(***************************************************************************)
(* Regular expressions of the variant scan                                 *)
(***************************************************************************)
\* A match result: matched, and the captured group.
NoMatch == [matched |-> FALSE, group |-> <<>>]
Match(g) == [matched |-> TRUE, group |-> g]

\* re.search(r"BANDWIDTH=(\d+)", line): BANDWIDTH= followed by decimal digits
SearchDigits(text) ==
    IF DigitRun(text) = <<>> THEN NoMatch ELSE Match(DigitRun(text))

\* re.search(r"BANDWIDTH=(\\d+)", line): in a raw string \\ is the regex for one
\* literal backslash, so this matches BANDWIDTH= followed by a backslash and d's
SearchBackslashD(text) ==
    IF text # <<>> /\ Head(text) = "\\" /\ LetterDRun(Tail(text)) # <<>>
    THEN Match(<<"\\">> \o LetterDRun(Tail(text)))
    ELSE NoMatch

\* int(group): ValueError unless the group is a run of decimal digits
IntRaises(group) == group = <<>> \/ \E i \in 1..Len(group) : group[i] \notin Digits

\* re.search(r"RESOLUTION=(\\d+)x(\\d+)", line), group(2)
SearchResolutionBackslashD(text) ==
    LET w == SearchBackslashD(text)
        rest == IF w.matched THEN SubSeq(text, Len(w.group) + 1, Len(text)) ELSE <<>>
    IN  IF w.matched /\ rest # <<>> /\ Head(rest) = "x"
        THEN SearchBackslashD(Tail(rest))
        ELSE NoMatch

(***************************************************************************)
(* Results, exceptions, network                                            *)
(***************************************************************************)
Ok(v) == [exc |-> "", val |-> v]
Raise(e) == [exc |-> e, val |-> <<>>]

\* what the server holds at a playlist URL: readable text, or a failing request
Served(text) == [ok |-> TRUE, text |-> text]
Unreachable == [ok |-> FALSE, text |-> <<>>]

\* http_get(url, headers, timeout) against the network n: the text, or the error
\* raised by urlopen
http_get(n, url) ==
    IF url \in DOMAIN n /\ n[url].ok THEN Ok(n[url].text) ELSE Raise("URLError")

(***************************************************************************)
(* Variant scan and selection                                              *)
(***************************************************************************)
\* while j < len(lines) and lines[j].startswith("#"): j += 1
RECURSIVE SkipComments(_, _)
SkipComments(lines, j) ==
    IF j <= Len(lines) /\ startswith(lines[j], "#") THEN SkipComments(lines, j + 1)
    ELSE j

\* Optional[int]: <<>> is None
None == <<>>
Some(v) == <<v>>
OrZero(opt) == IF opt = None THEN 0 ELSE opt[1]

\* the while loop of parse_master_variants_only from position i on
RECURSIVE ScanMasterVariantsOnly(_, _, _)
ScanMasterVariantsOnly(lines, i, base_url) ==
    IF i > Len(lines) THEN Ok(<<>>)
    ELSE IF startswith(lines[i], "#EXT-X-STREAM-INF")
    THEN LET bandwidth_match == SearchBackslashD(lines[i].bw)
             resolution_match == SearchResolutionBackslashD(lines[i].res)
             j == SkipComments(lines, i + 1)
         IN  IF bandwidth_match.matched /\ IntRaises(bandwidth_match.group)
             THEN Raise("ValueError")
             ELSE IF resolution_match.matched /\ IntRaises(resolution_match.group)
             THEN Raise("ValueError")
             ELSE LET bandwidth == IF bandwidth_match.matched
                                   THEN IntOf(bandwidth_match.group) ELSE 0
                      height == IF resolution_match.matched
                                THEN Some(IntOf(resolution_match.group)) ELSE None
                      rest == ScanMasterVariantsOnly(lines, j, base_url)
                  IN  IF rest.exc # "" THEN rest
                      ELSE IF j <= Len(lines)
                      THEN Ok(<<<<bandwidth, height, urljoin(base_url, lines[j].ref)>>>>
                              \o rest.val)
                      ELSE rest
    ELSE ScanMasterVariantsOnly(lines, i + 1, base_url)

parse_master_variants_only(text, base_url) ==
    ScanMasterVariantsOnly(StrippedLines(text), 1, base_url)

\* (a0, a1) < (b0, b1) as Python compares tuples
TupleLess(a, b) == a[1] < b[1] \/ (a[1] = b[1] /\ a[2] < b[2])

\* max(seq, key=...): the position of the first element whose key is the largest
MaxFirst(keys) ==
    CHOOSE i \in 1..Len(keys) :
        /\ \A j \in 1..Len(keys) : ~TupleLess(keys[i], keys[j])
        /\ \A j \in 1..(i - 1) : TupleLess(keys[j], keys[i])

\* max(variants, key=lambda v: (v[0], v[1] or 0))[2]
choose_variant_best(variants) ==
    IF variants = <<>> THEN Raise("ValueError")
    ELSE Ok(variants[MaxFirst([k \in 1..Len(variants) |->
                <<variants[k][1], OrZero(variants[k][2])>>])][3])

\* the while loop of resolve_segments_from_m3u8: (bandwidth, uri) pairs
RECURSIVE ScanResolveVariants(_, _, _)
ScanResolveVariants(lines, i, m3u8_url) ==
    IF i > Len(lines) THEN <<>>
    ELSE IF startswith(lines[i], "#EXT-X-STREAM-INF")
    THEN LET bandwidth_match == SearchDigits(lines[i].bw)
             bandwidth == IF bandwidth_match.matched
                          THEN IntOf(bandwidth_match.group) ELSE 0
             j == SkipComments(lines, i + 1)
         IN  IF j <= Len(lines)
             THEN <<<<bandwidth, urljoin(m3u8_url, lines[j].ref)>>>>
                  \o ScanResolveVariants(lines, j, m3u8_url)
             ELSE ScanResolveVariants(lines, j, m3u8_url)
    ELSE ScanResolveVariants(lines, i + 1, m3u8_url)

\* the while loop of detect_encryption_in_playlist_chain: (bandwidth, uri) pairs
RECURSIVE ScanDetectVariants(_, _, _)
ScanDetectVariants(lines, i, m3u8_url) ==
    IF i > Len(lines) THEN Ok(<<>>)
    ELSE IF startswith(lines[i], "#EXT-X-STREAM-INF")
    THEN LET bandwidth_match == SearchBackslashD(lines[i].bw)
             j == SkipComments(lines, i + 1)
         IN  IF bandwidth_match.matched /\ IntRaises(bandwidth_match.group)
             THEN Raise("ValueError")
             ELSE LET bandwidth == IF bandwidth_match.matched
                                   THEN IntOf(bandwidth_match.group) ELSE 0
                      rest == ScanDetectVariants(lines, j, m3u8_url)
                  IN  IF rest.exc # "" THEN rest
                      ELSE IF j <= Len(lines)
                      THEN Ok(<<<<bandwidth, urljoin(m3u8_url, lines[j].ref)>>>>
                              \o rest.val)
                      ELSE rest
    ELSE ScanDetectVariants(lines, i + 1, m3u8_url)

\* max(variants, key=lambda x: x[0])[1]
BestUri(variants) ==
    variants[MaxFirst([k \in 1..Len(variants) |-> <<variants[k][1], 0>>])][2]

(***************************************************************************)
(* Media playlist: segments and encryption                                 *)
(***************************************************************************)
\* a scan that puts each new segment in front of the list instead of appending it
RECURSIVE SegmentsPrepended(_, _)
SegmentsPrepended(lines, base_url) ==
    IF lines = <<>> THEN <<>>
    ELSE IF startswith(Head(lines), "#") THEN SegmentsPrepended(Tail(lines), base_url)
    ELSE SegmentsPrepended(Tail(lines), base_url) \o <<urljoin(base_url, Head(lines).ref)>>

\* segments.append(urljoin(base_url, line)) for the lines that do not start with #
RECURSIVE SegmentsOf(_, _)
SegmentsOf(lines, base_url) ==
    IF lines = <<>> THEN <<>>
    ELSE IF startswith(Head(lines), "#") THEN SegmentsOf(Tail(lines), base_url)
    ELSE <<urljoin(base_url, Head(lines).ref)>> \o SegmentsOf(Tail(lines), base_url)

\* a parse that takes the lines of a master playlist for segments
parse_ignoring_master(text, base_url) ==
    LET lines == StrippedLines(text)
    IN  IF SegmentsOf(lines, base_url) = <<>> THEN Raise("ValueError")
        ELSE Ok(SegmentsOf(lines, base_url))

\* a parse that returns the list of segments even when it is empty
parse_allowing_empty(text, base_url) ==
    LET lines == StrippedLines(text)
    IN  IF IsMaster(lines) THEN Raise("ValueError")
        ELSE Ok(SegmentsOf(lines, base_url))

parse_m3u8(text, base_url) ==
    LET lines == StrippedLines(text)
    IN  IF IsMaster(lines) THEN Raise("ValueError")
        ELSE IF SegmentsOf(lines, base_url) = <<>> THEN Raise("ValueError")
        ELSE Ok(SegmentsOf(lines, base_url))

\* enumerate(urls): (index, url) pairs, index from 0
enumerate(urls) == [k \in 1..Len(urls) |-> <<k - 1, urls[k]>>]

playlist_has_encryption(m3u8_text) ==
    \E k \in 1..Len(m3u8_text) :
        /\ startswith(strip(m3u8_text[k]), "#EXT-X-KEY")
        /\ ~ContainsMethodNone(m3u8_text[k])

(***************************************************************************)
(* Manifest chain                                                          *)
(***************************************************************************)
\* A call's outcome with the URLs it requested, in order.
Outcome(r, fetched) == [exc |-> r.exc, val |-> r.val, fetched |-> fetched]

resolve_segments_from_m3u8(n, m3u8_url) ==
    LET top == http_get(n, m3u8_url)
        lines == StrippedLines(top.val)
        variants == ScanResolveVariants(lines, 1, m3u8_url)
    IN  IF top.exc # "" THEN Outcome(top, <<m3u8_url>>)
        ELSE IF IsMaster(lines)
        THEN IF variants = <<>> THEN Outcome(Raise("ValueError"), <<m3u8_url>>)
             ELSE LET best_uri == BestUri(variants)
                      media == http_get(n, best_uri)
                  IN  IF media.exc # "" THEN Outcome(media, <<m3u8_url, best_uri>>)
                      ELSE Outcome(parse_m3u8(media.val, best_uri),
                                   <<m3u8_url, best_uri>>)
        ELSE Outcome(parse_m3u8(top.val, m3u8_url), <<m3u8_url>>)

detect_encryption_in_playlist_chain(n, m3u8_url) ==
    LET top == http_get(n, m3u8_url)
        lines == StrippedLines(top.val)
        variants == ScanDetectVariants(lines, 1, m3u8_url)
    IN  IF top.exc # "" THEN Outcome(top, <<m3u8_url>>)
        ELSE IF IsMaster(lines)
        THEN IF variants.exc # "" THEN Outcome(variants, <<m3u8_url>>)
             ELSE IF variants.val = <<>> THEN Outcome(Ok(FALSE), <<m3u8_url>>)
             ELSE LET best_uri == BestUri(variants.val)
                      media == http_get(n, best_uri)
                  IN  IF media.exc # "" THEN Outcome(media, <<m3u8_url, best_uri>>)
                      ELSE Outcome(Ok(playlist_has_encryption(media.val)),
                                   <<m3u8_url, best_uri>>)
        ELSE Outcome(Ok(playlist_has_encryption(top.val)), <<m3u8_url>>)

(***************************************************************************)
(* Inputs: playlist texts and the network that serves them                 *)
(***************************************************************************)
M3u8Url == Url(<<"h", "a">>, "master.m3u8")

\* the lines a generated media playlist text is made of
MediaLines ==
    { Blank,
      Comment("#EXTINF"),
      Indented(Comment("#EXTINF")),
      KeyLine("AES-128", FALSE),
      KeyLine("NONE", FALSE),
      KeyLine("", FALSE),
      KeyLine("AES-128", TRUE),
      Content(Ref(FALSE, <<>>, "s0.ts")),
      Content(Ref(FALSE, <<"sub">>, "s1.ts")),
      Content(Ref(TRUE, <<"cdn">>, "s2.ts")),
      Indented(Content(Ref(FALSE, <<>>, "s3.ts"))) }

TextsUpTo(lineSet, n) == UNION { [1..k -> lineSet] : k \in 0..n }

MediaTexts == TextsUpTo(MediaLines, MaxLines)

\* the attribute texts of a #EXT-X-STREAM-INF line: BANDWIDTH= and RESOLUTION=
Bw500 == <<"5", "0", "0">>
Bw1200 == <<"1", "2", "0", "0">>
BwBackslashD == <<"\\", "d">>
Res480 == <<"6", "4", "0", "x", "4", "8", "0">>
Res720 == <<"1", "2", "8", "0", "x", "7", "2", "0">>
Res1080 == <<"1", "9", "2", "0", "x", "1", "0", "8", "0">>

VariantAttrs ==
    { <<Bw500, Res480>>, <<Bw1200, Res720>>, <<Bw1200, Res1080>>,
      <<<<>>, <<>>>>, <<Bw500, <<>>>>, <<BwBackslashD, <<>>>> }

ChainAttrs == { <<Bw500, Res480>>, <<Bw1200, Res720>>, <<<<>>, <<>>>> }

\* the URI line of the k-th variant block, and the URL it resolves to
VariantRef(k) == Ref(FALSE, <<ToString(k)>>, "index.m3u8")
VariantUrl(k) == urljoin(M3u8Url, VariantRef(k))

\* a variant block: the stream-info line, an optional comment line, the URI line
Block(attrs, gap, k) ==
    <<StreamInf(attrs[1], attrs[2])>>
    \o (IF gap THEN <<Comment("#EXTINF")>> ELSE <<>>)
    \o <<Content(VariantRef(k))>>

RECURSIVE Blocks(_, _)
Blocks(choice, k) ==
    IF k > Len(choice) THEN <<>>
    ELSE Block(choice[k][1], choice[k][2], k) \o Blocks(choice, k + 1)

\* master playlists of 1..n variant blocks, the last one possibly without its URI line
MasterTexts(attrSet, gaps, n) ==
    { <<Comment("#EXTM3U")>> \o Blocks(choice, 1) \o tail :
        choice \in UNION { [1..k -> attrSet \X gaps] : k \in 1..n },
        tail \in { <<>>, <<StreamInf(Bw1200, Res1080)>> } }

\* media playlists served at a variant URL
PlainMedia ==
    <<Comment("#EXTM3U"), Comment("#EXTINF"), Content(Ref(FALSE, <<>>, "s0.ts")),
      Comment("#EXTINF"), Content(Ref(FALSE, <<>>, "s1.ts"))>>
EncryptedMedia ==
    <<Comment("#EXTM3U"), KeyLine("AES-128", FALSE), Comment("#EXTINF"),
      Content(Ref(FALSE, <<>>, "s0.ts"))>>
KeyOnlyMedia == <<Comment("#EXTM3U"), KeyLine("AES-128", FALSE)>>
NestedMaster == <<Comment("#EXTM3U")>> \o Block(<<Bw500, Res480>>, FALSE, 1)
\* a master playlist whose only stream-info line is followed by no URI line
VariantlessMaster ==
    <<Comment("#EXTM3U"), StreamInf(Bw1200, Res1080), Comment("#EXTINF")>>

VariantResponses ==
    { Served(PlainMedia), Served(EncryptedMedia), Served(KeyOnlyMedia),
      Served(NestedMaster), Unreachable }

\* the network of one manifest: the top-level URL and the variant URLs
NetOf(top, variants) ==
    [u \in {M3u8Url} \cup { VariantUrl(k) : k \in 1..Len(variants) } |->
        IF u = M3u8Url THEN top
        ELSE variants[CHOOSE k \in 1..Len(variants) : VariantUrl(k) = u]]

(***************************************************************************)
(* Calls of the pure functions                                             *)
(***************************************************************************)
Functions ==
    { "parse_m3u8", "enumerate", "playlist_has_encryption",
      "parse_master_variants_only", "choose_variant_best",
      "resolve_segments_from_m3u8", "detect_encryption_in_playlist_chain" }

NotCalled == [called |-> FALSE, exc |-> "", val |-> <<>>, fetched |-> <<>>]
Returned(o) == [called |-> TRUE, exc |-> o.exc, val |-> o.val, fetched |-> o.fetched]

TdIdle == [pc |-> "idle"]
DlIdle == [pc |-> "idle"]
PoolIdle == [pc |-> "idle"]
HdrIdle == [pc |-> "idle"]
TmIdle == [pc |-> "idle"]
AmIdle == [pc |-> "idle"]
AdIdle == [pc |-> "idle"]
FaIdle == [pc |-> "idle"]
TgIdle == [pc |-> "idle"]

Call(f, outcome) ==
    /\ ~ret[f].called
    /\ ret' = [ret EXCEPT ![f] = Returned(outcome)]
    /\ UNCHANGED <<content, net, td, dl, pool, hdr, tm, am, ad, fa, tg>>

Call_parse_m3u8 ==
    Call("parse_m3u8", Outcome(parse_m3u8(content, M3u8Url), <<>>))

\* futures = [executor.submit(task, (i, u)) for i, u in enumerate(urls)]
Call_enumerate ==
    /\ ret["parse_m3u8"].called
    /\ ret["parse_m3u8"].exc = ""
    /\ Call("enumerate", Outcome(Ok(enumerate(ret["parse_m3u8"].val)), <<>>))

Call_playlist_has_encryption ==
    Call("playlist_has_encryption", Outcome(Ok(playlist_has_encryption(content)), <<>>))

Call_parse_master_variants_only ==
    Call("parse_master_variants_only",
         Outcome(parse_master_variants_only(content, M3u8Url), <<>>))

Call_choose_variant_best ==
    /\ ret["parse_master_variants_only"].called
    /\ ret["parse_master_variants_only"].exc = ""
    /\ Call("choose_variant_best",
            Outcome(choose_variant_best(ret["parse_master_variants_only"].val), <<>>))

Call_resolve_segments_from_m3u8 ==
    Call("resolve_segments_from_m3u8", resolve_segments_from_m3u8(net, M3u8Url))

Call_detect_encryption_in_playlist_chain ==
    Call("detect_encryption_in_playlist_chain",
         detect_encryption_in_playlist_chain(net, M3u8Url))

\* Media playlist texts: parse_m3u8, enumerate, playlist_has_encryption
InitPlaylist ==
    /\ content \in MediaTexts
    /\ net = NetOf(Served(content), <<>>)
    /\ ret = [f \in Functions |-> NotCalled]
    /\ am = AmIdle
    /\ ad = AdIdle
    /\ fa = FaIdle
    /\ tg = TgIdle
    /\ td = TdIdle
    /\ dl = DlIdle
    /\ pool = PoolIdle
    /\ hdr = HdrIdle
    /\ tm = TmIdle

NextPlaylist ==
    \/ Call_parse_m3u8
    \/ Call_enumerate
    \/ Call_playlist_has_encryption

SpecPlaylist == InitPlaylist /\ [][NextPlaylist]_vars

\* Master playlist texts whose variants all serve a plain media playlist:
\* parse_master_variants_only, choose_variant_best, resolve_segments_from_m3u8
InitVariant ==
    /\ content \in MasterTexts(VariantAttrs, BOOLEAN, MaxVariants)
    /\ net = NetOf(Served(content), [k \in 1..(MaxVariants + 1) |-> Served(PlainMedia)])
    /\ ret = [f \in Functions |-> NotCalled]
    /\ am = AmIdle
    /\ ad = AdIdle
    /\ fa = FaIdle
    /\ tg = TgIdle
    /\ td = TdIdle
    /\ dl = DlIdle
    /\ pool = PoolIdle
    /\ hdr = HdrIdle
    /\ tm = TmIdle

NextVariant ==
    \/ Call_parse_master_variants_only
    \/ Call_choose_variant_best
    \/ Call_resolve_segments_from_m3u8

SpecVariant == InitVariant /\ [][NextVariant]_vars

\* Manifest chains: a top-level playlist (master or media, reachable or not) and
\* what each variant URL serves
InitChain ==
    /\ content \in MasterTexts(ChainAttrs, {FALSE}, MaxChainVariants)
                     \cup {PlainMedia, EncryptedMedia, KeyOnlyMedia, VariantlessMaster, <<>>}
    /\ \E top \in {Served(content), Unreachable} :
       \E variants \in [1..MaxChainVariants -> VariantResponses] :
            net = NetOf(top, variants)
    /\ ret = [f \in Functions |-> NotCalled]
    /\ am = AmIdle
    /\ ad = AdIdle
    /\ fa = FaIdle
    /\ tg = TgIdle
    /\ td = TdIdle
    /\ dl = DlIdle
    /\ pool = PoolIdle
    /\ hdr = HdrIdle
    /\ tm = TmIdle

NextChain ==
    \/ Call_resolve_segments_from_m3u8
    \/ Call_detect_encryption_in_playlist_chain

SpecChain == InitChain /\ [][NextChain]_vars

(***************************************************************************)
(* Claims on the playlist functions                                        *)
(***************************************************************************)
\* a line that is neither blank nor, once stripped, a comment or directive
IsContentLine(line) == strip(line).tag \notin (HashTags \cup {""})
ContentLines(text) == SelectSeq(text, IsContentLine)

\* C8: for a media playlist text with N >= 1 lines that are non-blank and are not
\* '#' lines, parse_m3u8 returns exactly N segment URIs, position k being the k-th
\* such line resolved against the base URL, and enumerate gives them the indices
\* 0..N-1 in that order.
C8_ParseYieldsSegmentsInOrder ==
    LET r == ret["parse_m3u8"]
        e == ret["enumerate"]
        lines == ContentLines(content)
        N == Len(lines)
    IN  /\ (r.called /\ N >= 1) =>
            /\ r.exc = ""
            /\ Len(r.val) = N
            /\ \A k \in 1..N : r.val[k] = urljoin(M3u8Url, lines[k].ref)
        /\ e.called =>
            /\ Len(e.val) = N
            /\ \A k \in 1..N : e.val[k] = <<k - 1, urljoin(M3u8Url, lines[k].ref)>>

\* C8 witness: a text of three lines, a directive between two different segment
\* lines, has been parsed and enumerated
C8_Witness ==
    /\ ret["enumerate"].called
    /\ Len(content) = 3
    /\ Len(ret["parse_m3u8"].val) = 2
    /\ ret["parse_m3u8"].val[1] # ret["parse_m3u8"].val[2]
    /\ content[2].tag = "#EXTINF"

\* C9: playlist_has_encryption returns true if and only if the playlist has a key
\* directive whose METHOD field is present and is not NONE.
C9_EncryptedIffKeyMethodNotNone ==
    LET r == ret["playlist_has_encryption"]
    IN  r.called =>
            (r.val <=> \E k \in 1..Len(content) :
                            /\ strip(content[k]).tag = "#EXT-X-KEY"
                            /\ content[k].method \notin {"", "NONE"})

\* the variants a master playlist declares: for every stream-info line that is
\* followed by a URI line, its BANDWIDTH value, the height of its RESOLUTION (or
\* None) and its URI
DeclaredHeight(res) ==
    LET w == DigitRun(res)
        rest == SubSeq(res, Len(w) + 1, Len(res))
    IN  IF w # <<>> /\ rest # <<>> /\ Head(rest) = "x" /\ DigitRun(Tail(rest)) # <<>>
        THEN Some(IntOf(DigitRun(Tail(rest)))) ELSE None

RECURSIVE DeclaredVariants(_, _)
DeclaredVariants(lines, i) ==
    IF i > Len(lines) THEN <<>>
    ELSE IF lines[i].tag = "#EXT-X-STREAM-INF"
    THEN LET j == SkipComments(lines, i + 1)
         IN  IF j <= Len(lines)
             THEN <<<<IntOf(DigitRun(lines[i].bw)), DeclaredHeight(lines[i].res),
                      urljoin(M3u8Url, lines[j].ref)>>>> \o DeclaredVariants(lines, j)
             ELSE DeclaredVariants(lines, j)
    ELSE DeclaredVariants(lines, i + 1)

\* the first declared variant with the largest (bandwidth, height or 0)
BestDeclared(text) ==
    LET vs == DeclaredVariants(StrippedLines(text), 1)
    IN  CHOOSE k \in 1..Len(vs) :
            /\ \A j \in 1..Len(vs) :
                 ~TupleLess(<<vs[k][1], OrZero(vs[k][2])>>, <<vs[j][1], OrZero(vs[j][2])>>)
            /\ \A j \in 1..(k - 1) :
                 TupleLess(<<vs[j][1], OrZero(vs[j][2])>>, <<vs[k][1], OrZero(vs[k][2])>>)

\* C5: the variant chosen is the first one that maximizes (bandwidth, height or 0),
\* both by choose_variant_best on the output of parse_master_variants_only and by
\* the selection inside resolve_segments_from_m3u8.
C5_BestVariantChosen ==
    LET c == ret["choose_variant_best"]
        r == ret["resolve_segments_from_m3u8"]
        best == DeclaredVariants(StrippedLines(content), 1)[BestDeclared(content)][3]
    IN  /\ (c.called /\ c.exc = "") => c.val = best
        /\ (r.called /\ Len(r.fetched) = 2) => r.fetched[2] = best

\* C4: the media playlist the encryption probe inspects is the media playlist of
\* the variant resolve_segments_from_m3u8 takes the segments from.
C4_ProbeInspectsResolvedVariant ==
    LET d == ret["detect_encryption_in_playlist_chain"]
        r == ret["resolve_segments_from_m3u8"]
    IN  (d.called /\ r.called /\ Len(d.fetched) = 2 /\ Len(r.fetched) = 2)
            => d.fetched[2] = r.fetched[2]

\* the text has a stream-info line: it is a master playlist
HasStreamInf(text) ==
    \E k \in 1..Len(text) : strip(text[k]).tag = "#EXT-X-STREAM-INF"

\* C21: resolve_segments_from_m3u8 follows at most one hop: it fetches the top-level
\* playlist and at most one variant playlist, and if the chosen variant playlist is
\* itself a master playlist it fails with an error instead of following it or
\* returning segments.
C21_AtMostOneHop ==
    LET r == ret["resolve_segments_from_m3u8"]
    IN  r.called =>
            /\ Len(r.fetched) \in {1, 2}
            /\ r.fetched[1] = M3u8Url
            /\ Len(r.fetched) = 2 =>
                  /\ net[M3u8Url].ok /\ HasStreamInf(net[M3u8Url].text)
                  /\ r.fetched[2] # M3u8Url
                  /\ (net[r.fetched[2]].ok /\ HasStreamInf(net[r.fetched[2]].text))
                        => (r.exc = "ValueError" /\ r.val = <<>>)

\* C21 witness: the variant taken from a master playlist serves a master playlist
\* again, and the call has failed after two requests
C21_Witness ==
    LET r == ret["resolve_segments_from_m3u8"]
    IN  /\ r.called
        /\ Len(r.fetched) = 2
        /\ net[r.fetched[2]] = Served(NestedMaster)
        /\ r.exc = "ValueError"

\* C22: resolve_segments_from_m3u8 either returns a non-empty ordered segment list
\* or fails: it fails when a master playlist yields no variant with a URI line, and
\* when the terminal media playlist has no non-comment line; it never returns an
\* empty list.
C22_NonEmptySegmentsOrFailure ==
    LET r == ret["resolve_segments_from_m3u8"]
        terminal == r.fetched[Len(r.fetched)]
    IN  r.called =>
            /\ r.exc = "" => r.val # <<>>
            /\ r.exc # "" => r.val = <<>>
            /\ (net[M3u8Url].ok /\ HasStreamInf(content)
                  /\ DeclaredVariants(StrippedLines(content), 1) = <<>>)
                  => (r.exc = "ValueError" /\ Len(r.fetched) = 1)
            /\ (net[terminal].ok /\ ~HasStreamInf(net[terminal].text)
                  /\ ContentLines(net[terminal].text) = <<>>)
                  => r.exc = "ValueError"
            /\ (net[terminal].ok /\ ~HasStreamInf(net[terminal].text)
                  /\ ContentLines(net[terminal].text) # <<>>)
                  => (r.exc = ""
                      /\ r.val = [k \in 1..Len(ContentLines(net[terminal].text)) |->
                                    urljoin(terminal, ContentLines(net[terminal].text)[k].ref)])

\* C22 witness: the variant playlist reached through a master playlist has a key
\* line and no segment line, and the call has failed
C22_Witness ==
    LET r == ret["resolve_segments_from_m3u8"]
    IN  /\ r.called
        /\ Len(r.fetched) = 2
        /\ net[r.fetched[2]] = Served(KeyOnlyMedia)
        /\ r.exc = "ValueError"

(***************************************************************************)
(* try_download: one request per step, sleeping between attempts           *)
(***************************************************************************)
\* what one http_get of a segment can end in: data, an HTTPError with its status,
\* a URLError, or any other exception (time-out, reset connection)
HttpOk == [kind |-> "ok", code |-> 200]
HttpError(code) == [kind |-> "HTTPError", code |-> code]
UrlError == [kind |-> "URLError", code |-> 0]
OtherError == [kind |-> "Exception", code |-> 0]

Responses ==
    { HttpOk, HttpError(401), HttpError(403), HttpError(404), HttpError(500),
      HttpError(503), UrlError, OtherError }

\* the activation of try_download(url, headers, timeout, retries, backoff);
\* slept lists the delays taken, in units of backoff
TdStart(retries) ==
    [pc |-> "request", retries |-> retries, attempt |-> 0, history |-> <<>>,
     slept |-> <<>>, result |-> <<>>]

\* a delay that grows by one unit per attempt
LinearDelay(n) == n + 1

\* 2 ** attempt
Pow2(n) == IF n <= 0 THEN 1 ELSE 2 ^ n

\* a test that lets the loop go one attempt further before it gives up
GiveUpLate(attempt, retries) == attempt > retries

\* if attempt >= retries
GiveUp(attempt, retries) == attempt >= retries

\* a test that takes 404 alone for a permanent answer
PermanentOnly404(code) == code = 404

\* if e.code in (403, 404)
Permanent(code) == code \in {403, 404}

\* return ok, data, code
TdReturn(t, h, ok, data, code) ==
    [t EXCEPT !.pc = "returned", !.history = h, !.result = <<ok, data, code>>]

\* the body of the for loop up to the sleep, for the response resp
TdAfterRequest(t, resp) ==
    LET h == Append(t.history, resp)
    IN  IF resp.kind = "ok" THEN TdReturn(t, h, TRUE, Some("data"), None)
        ELSE IF resp.kind = "HTTPError"
        THEN IF Permanent(resp.code) THEN TdReturn(t, h, FALSE, None, Some(resp.code))
             ELSE IF GiveUp(t.attempt, t.retries)
             THEN TdReturn(t, h, FALSE, None, Some(resp.code))
             ELSE [t EXCEPT !.pc = "sleep", !.history = h]
        ELSE IF GiveUp(t.attempt, t.retries) THEN TdReturn(t, h, FALSE, None, None)
             ELSE [t EXCEPT !.pc = "sleep", !.history = h]

\* for attempt in range(retries + 1): data = http_get(url, headers, timeout) ...
TdRequest ==
    /\ td.pc = "request"
    /\ td.attempt <= td.retries
    /\ \E resp \in Responses : td' = TdAfterRequest(td, resp)
    /\ UNCHANGED <<content, net, ret, dl, pool, hdr, tm, am, ad, fa, tg>>

\* time.sleep(backoff * (2 ** attempt)), then the next iteration
TdSleep ==
    /\ td.pc = "sleep"
    /\ td' = [td EXCEPT !.pc = "request", !.attempt = @ + 1,
                        !.slept = Append(@, Pow2(td.attempt))]
    /\ UNCHANGED <<content, net, ret, dl, pool, hdr, tm, am, ad, fa, tg>>

\* the range is used up: return False, None, None
TdExhausted ==
    /\ td.pc = "request"
    /\ td.attempt > td.retries
    /\ td' = TdReturn(td, td.history, FALSE, None, None)
    /\ UNCHANGED <<content, net, ret, dl, pool, hdr, tm, am, ad, fa, tg>>

InitFetch ==
    /\ content = <<>>
    /\ net = <<>>
    /\ ret = [f \in Functions |-> NotCalled]
    /\ am = AmIdle
    /\ ad = AdIdle
    /\ fa = FaIdle
    /\ tg = TgIdle
    /\ \E retries \in (-1)..MaxRetries : td = TdStart(retries)
    /\ dl = DlIdle
    /\ pool = PoolIdle
    /\ hdr = HdrIdle
    /\ tm = TmIdle

NextFetch ==
    \/ TdRequest
    \/ TdSleep
    \/ TdExhausted

SpecFetch == InitFetch /\ [][NextFetch]_vars

\* a failed attempt after which try_download may try again
Retriable(resp) ==
    /\ resp.kind # "ok"
    /\ ~(resp.kind = "HTTPError" /\ resp.code \in {403, 404})

\* the HTTP status of an attempt, None for an attempt that got no HTTP answer
StatusOf(resp) == IF resp.kind = "HTTPError" THEN Some(resp.code) ELSE None

\* C10: with retry count R, try_download makes at most R+1 attempts; after k
\* retriable errors followed by 200 it succeeds, which happens only with k <= R,
\* and it gives up on retriable errors only after R+1 attempts; when all R+1
\* attempts fail it reports failure with the HTTP status of the last attempt.
C10_RetriesThenStatusOfLastAttempt ==
    LET h == td.history
        n == Len(h)
        R == td.retries
    IN  td.pc # "idle" =>
        /\ n <= R + 1
        /\ (td.pc = "returned" /\ td.result[1]) =>
                /\ h[n].kind = "ok"
                /\ n - 1 <= R
                /\ \A i \in 1..(n - 1) : Retriable(h[i])
        /\ (td.pc = "returned" /\ ~td.result[1] /\ \A i \in 1..n : Retriable(h[i])) =>
                n = R + 1
        /\ (n >= 1 /\ h[n].kind = "ok") => (td.pc = "returned" /\ td.result[1])
        /\ (td.pc = "returned" /\ n >= 1 /\ n = R + 1 /\ h[n].kind # "ok") =>
                /\ ~td.result[1]
                /\ td.result[3] = StatusOf(h[n])

\* C10 witness: 500 twice with R = 1 has failed with status 500
C10_Witness ==
    /\ td.pc = "returned"
    /\ td.retries = 1
    /\ td.history = <<HttpError(500), HttpError(500)>>
    /\ td.result = <<FALSE, None, Some(500)>>

\* C11: in try_download an HTTP 403 or 404 answer on any attempt ends the fetch at
\* that attempt: failure with that status is returned at once, no further request is
\* made and no delay is taken after it, whatever retries remain.
C11_ForbiddenOrMissingEndsFetch ==
    LET h == td.history
    IN  td.pc # "idle" =>
        \A i \in 1..Len(h) :
            (h[i].kind = "HTTPError" /\ h[i].code \in {403, 404}) =>
                /\ i = Len(h)
                /\ td.pc = "returned"
                /\ td.result = <<FALSE, None, Some(h[i].code)>>
                /\ Len(td.slept) = i - 1

\* C11 witness: 500 then 403 with three retries allowed has failed with status 403
\* after two requests and one delay
C11_Witness ==
    /\ td.pc = "returned"
    /\ td.retries = 3
    /\ td.history = <<HttpError(500), HttpError(403)>>
    /\ td.result = <<FALSE, None, Some(403)>>
    /\ Len(td.slept) = 1

\* the sum of a sequence of delays
RECURSIVE SumSeq(_)
SumSeq(s) == IF s = <<>> THEN 0 ELSE Head(s) + SumSeq(Tail(s))

\* C20: in try_download, in units of the backoff base, the delay taken after the
\* failed attempt number a (counted from 0) is 2^a; a delay is taken only between two
\* attempts, none after a success and none after the last failed attempt; a fetch
\* that exhausts R >= 0 retries has waited 2^R - 1 in total.
C20_ExponentialDelayBetweenAttempts ==
    LET h == td.history
        n == Len(h)
        R == td.retries
    IN  td.pc # "idle" =>
        /\ \A k \in 1..Len(td.slept) : td.slept[k] = 2 ^ (k - 1)
        /\ td.pc = "sleep" => (Len(td.slept) = n - 1 /\ h[n].kind # "ok" /\ n <= R)
        /\ td.pc = "request" => Len(td.slept) = n
        /\ (td.pc = "returned" /\ n >= 1) => Len(td.slept) = n - 1
        /\ (td.pc = "returned" /\ n = 0) => td.slept = <<>>
        /\ (td.pc = "returned" /\ R >= 0 /\ n = R + 1 /\ h[n].kind # "ok") =>
                SumSeq(td.slept) = 2 ^ R - 1

\* C20 witness: four failed attempts with R = 3 have waited 1, 2 and 4 units
C20_Witness ==
    /\ td.pc = "returned"
    /\ td.retries = 3
    /\ Len(td.history) = 4
    /\ ~td.result[1]
    /\ td.slept = <<1, 2, 4>>

(***************************************************************************)
(* The download entry points: src/src/download.py main (m3u8 / page mode), *)
(* src/main.py main (single URL) and src/main.py download_single_episode   *)
(***************************************************************************)
Entries == {"download.main", "main.main", "main.download_single_episode"}

\* a media playlist of n segments, with or without an AES-128 key directive
RECURSIVE SegmentLines(_)
SegmentLines(n) ==
    IF n = 0 THEN <<>>
    ELSE SegmentLines(n - 1)
         \o <<Comment("#EXTINF"), Content(Ref(FALSE, <<>>, ToString(n - 1)))>>

MediaOf(n, keyed) ==
    <<Comment("#EXTM3U")>>
    \o (IF keyed THEN <<KeyLine("AES-128", FALSE)>> ELSE <<>>)
    \o SegmentLines(n)

TwoVariants(a, b) ==
    <<Comment("#EXTM3U")>> \o Block(a, FALSE, 1) \o Block(b, FALSE, 2)

\* the manifests a download is run against
Manifests ==
    { NetOf(Unreachable, <<>>),
      NetOf(Served(<<>>), <<>>),
      NetOf(Served(KeyOnlyMedia), <<>>),
      NetOf(Served(MediaOf(1, FALSE)), <<>>),
      NetOf(Served(MediaOf(MaxSegments, FALSE)), <<>>),
      NetOf(Served(MediaOf(2, TRUE)), <<>>),
      NetOf(Served(TwoVariants(<<Bw500, Res480>>, <<Bw1200, Res720>>)),
            <<Served(MediaOf(2, FALSE)), Served(MediaOf(3, TRUE))>>),
      NetOf(Served(TwoVariants(<<Bw500, Res480>>, <<Bw1200, Res720>>)),
            <<Served(MediaOf(2, TRUE)), Served(MediaOf(3, FALSE))>>),
      NetOf(Served(TwoVariants(<<Bw1200, Res720>>, <<Bw500, Res480>>)),
            <<Unreachable, Served(MediaOf(2, FALSE))>>),
      NetOf(Served(TwoVariants(<<Bw500, Res480>>, <<Bw1200, Res720>>)),
            <<Served(MediaOf(2, TRUE)), Unreachable>>),
      NetOf(Served(TwoVariants(<<Bw1200, Res720>>, <<Bw500, Res480>>)),
            <<Served(NestedMaster), Served(MediaOf(2, FALSE))>>) }

\* the network as one call sees it: the URLs in down fail for the length of the call
Masked(n, down) == [u \in DOMAIN n |-> IF u \in down THEN Unreachable ELSE n[u]]

\* shutil.which("ffmpeg") is None: False; otherwise the result of the ffmpeg run
ffmpeg_download_m3u8(installed) == IF installed THEN BOOLEAN ELSE {FALSE}

\* int(0.8 * len(segments))
FourFifths(n) == (4 * n) \div 5

Max(a, b) == IF a >= b THEN a ELSE b

\* len(downloaded) < max(1, int(0.8 * len(segments)))
TooManyFailures(downloaded, total) == downloaded < Max(1, FourFifths(total))

\* sorted(segments_dir.glob("*.ts")): the file indices in increasing order
RECURSIVE Sorted(_)
Sorted(S) ==
    IF S = {} THEN <<>>
    ELSE LET m == CHOOSE x \in S : \A y \in S : x <= y
         IN  <<m>> \o Sorted(S \ {m})

LogEntry(call, ok, succeeded, attempted) ==
    [call |-> call, ok |-> ok, succeeded |-> succeeded, attempted |-> attempted]
Logged(d, call, ok) == Append(d.log, LogEntry(call, ok, 0, 0))

\* use_ytdlp: args.yt_dlp (download.py), args.yt_dlp or bool(args.page) (main.py
\* main), args.yt_dlp or True (download_single_episode)
use_ytdlp(d) ==
    CASE d.entry = "download.main" -> d.yt_dlp
      [] d.entry = "main.main" -> d.yt_dlp \/ d.page
      [] OTHER -> TRUE

DlStartRecord(entry, page, yt_dlp, mp4, ffmpeg) ==
    [pc |-> "start", entry |-> entry, page |-> page, yt_dlp |-> yt_dlp, mp4 |-> mp4,
     ffmpeg |-> ffmpeg, is_encrypted |-> FALSE, segments |-> <<>>, probe |-> <<>>,
     segments_dir |-> {}, output |-> "", log |-> <<>>, result |-> "",
     keep_temp |-> FALSE, temp_dir |-> "none"]

\* download.py main, finally: if not args.keep_temp and segments_dir.exists():
\* shutil.rmtree(segments_dir); the other entry points make no temporary directory
Cleanup(d) ==
    IF d.entry = "download.main" /\ ~d.keep_temp /\ d.temp_dir = "present"
    THEN "removed" ELSE d.temp_dir

\* return / sys.exit(1) / an exception that leaves the entry point
Finish(d, result) ==
    [d EXCEPT !.pc = "done", !.result = result, !.temp_dir = Cleanup(d)]

\* download.py main before its try: segments_dir = Path(tempfile.mkdtemp(...)),
\* then output_ts = ensure_output_path(...), whose mkdir of the parent directory
\* raises OSError when the directory cannot be made; the exception leaves main
DlPrepare ==
    /\ dl.pc = "enter"
    /\ \E raised \in BOOLEAN :
         dl' = IF raised
               THEN [dl EXCEPT !.pc = "done", !.result = "failure", !.temp_dir = "present"]
               ELSE [dl EXCEPT !.pc = "start", !.temp_dir = "present"]
    /\ UNCHANGED <<content, net, ret, td, pool, hdr, tm, am, ad, fa, tg>>

\* the m3u8 URL: given, or resolved from the page (which may find none)
DlStart ==
    /\ dl.pc = "start"
    /\ \E found \in (IF dl.page THEN BOOLEAN ELSE {TRUE}) :
         dl' = IF ~found THEN Finish(dl, "failure")
               ELSE [dl EXCEPT !.pc = IF use_ytdlp(dl) THEN "yt_dlp" ELSE "detect"]
    /\ UNCHANGED <<content, net, ret, td, pool, hdr, tm, am, ad, fa, tg>>

\* ok = yt_dlp_download_m3u8(...): if ok: return
DlYtDlp ==
    /\ dl.pc = "yt_dlp"
    /\ \E ok \in BOOLEAN :
         LET d == [dl EXCEPT !.log = Logged(dl, "yt_dlp_download_m3u8", ok)]
         IN  dl' = IF ok THEN Finish([d EXCEPT !.output = "yt-dlp"], "success")
                   ELSE [d EXCEPT !.pc = "detect"]
    /\ UNCHANGED <<content, net, ret, td, pool, hdr, tm, am, ad, fa, tg>>

\* a branch that goes on to the manual path whatever the detection said
AfterDetectIgnoringEncryption(is_encrypted) == "resolve"

\* if is_encrypted: ... else: ...
AfterDetect(is_encrypted) == IF is_encrypted THEN "ffmpeg_encrypted" ELSE "resolve"

\* try: is_encrypted = detect_encryption_in_playlist_chain(...)
\* except Exception: is_encrypted = False
DlDetect ==
    /\ dl.pc = "detect"
    /\ \E down \in SUBSET DOMAIN net :
         LET r == detect_encryption_in_playlist_chain(Masked(net, down), M3u8Url)
             enc == r.exc = "" /\ r.val
         IN  dl' = [dl EXCEPT !.is_encrypted = enc, !.pc = AfterDetect(enc),
                      !.log = Logged(dl, "detect_encryption_in_playlist_chain", r.exc = "")]
    /\ UNCHANGED <<content, net, ret, td, pool, hdr, tm, am, ad, fa, tg>>

\* the encrypted branch: ok = ffmpeg_download_m3u8(...)
DlFfmpegEncrypted ==
    /\ dl.pc = "ffmpeg_encrypted"
    /\ \E ok \in ffmpeg_download_m3u8(dl.ffmpeg) :
         LET d == [dl EXCEPT !.log = Logged(dl, "ffmpeg_download_m3u8", ok)]
         IN  dl' = IF ok
                   THEN IF d.entry = "download.main"
                        THEN [d EXCEPT !.output = "ffmpeg",
                                       !.pc = IF d.mp4 THEN "remux_return" ELSE "done",
                                       !.result = "success"]
                        ELSE [d EXCEPT !.output = "ffmpeg", !.pc = "remux"]
                   ELSE IF d.entry = "download.main"
                        THEN [d EXCEPT !.pc = "resolve"]
                        ELSE Finish(d, "failure")
    /\ UNCHANGED <<content, net, ret, td, pool, hdr, tm, am, ad, fa, tg>>

\* segments = resolve_segments_from_m3u8(...); an exception leaves the entry point
DlResolve ==
    /\ dl.pc = "resolve"
    /\ \E down \in SUBSET DOMAIN net :
         LET r == resolve_segments_from_m3u8(Masked(net, down), M3u8Url)
             d == [dl EXCEPT !.log = Logged(dl, "resolve_segments_from_m3u8", r.exc = "")]
         IN  dl' = IF r.exc # "" THEN Finish(d, "failure")
                   ELSE [d EXCEPT !.segments = r.val,
                           !.pc = IF d.entry = "download.main" THEN "probe" ELSE "manual"]
    /\ UNCHANGED <<content, net, ret, td, pool, hdr, tm, am, ad, fa, tg>>

\* ok_probe, _, code = try_download(segments[0], test_headers, args.timeout, 0, backoff=0)
DlProbe ==
    /\ dl.pc = "probe"
    /\ \E resp \in Responses :
         LET res == TdAfterRequest(TdStart(0), resp).result
             blocked == ~res[1] /\ res[3] \in {Some(401), Some(403)}
         IN  dl' = [dl EXCEPT !.probe = res,
                              !.pc = IF blocked THEN "ffmpeg_blocked" ELSE "manual",
                              !.log = Logged(dl, "try_download", res[1])]
    /\ UNCHANGED <<content, net, ret, td, pool, hdr, tm, am, ad, fa, tg>>

\* the probe was blocked: ok = ffmpeg_download_m3u8(base, test_headers, output_ts)
DlFfmpegBlocked ==
    /\ dl.pc = "ffmpeg_blocked"
    /\ \E ok \in ffmpeg_download_m3u8(dl.ffmpeg) :
         LET d == [dl EXCEPT !.log = Logged(dl, "ffmpeg_download_m3u8", ok)]
         IN  dl' = IF ok
                   THEN [d EXCEPT !.output = "ffmpeg", !.result = "success",
                                  !.pc = IF d.mp4 THEN "remux_return" ELSE "done"]
                   ELSE [d EXCEPT !.pc = "manual"]
    /\ UNCHANGED <<content, net, ret, td, pool, hdr, tm, am, ad, fa, tg>>

\* download_segments_concurrent(segments, ...): the files of the segments whose
\* fetch succeeded are in the segments directory when it returns
DlManual ==
    /\ dl.pc = "manual"
    /\ \E succeeded \in SUBSET (0..(Len(dl.segments) - 1)) :
         dl' = [dl EXCEPT
                  !.segments_dir = @ \cup succeeded,
                  !.log = Append(@, LogEntry("download_segments_concurrent", TRUE,
                                             Cardinality(succeeded), Len(dl.segments))),
                  !.pc = IF dl.entry = "download.main" THEN "verify" ELSE "concat"]
    /\ UNCHANGED <<content, net, ret, td, pool, hdr, tm, am, ad, fa, tg>>

\* downloaded = sorted(segments_dir.glob("*.ts")); too few: the ffmpeg fallback
DlVerify ==
    /\ dl.pc = "verify"
    /\ IF TooManyFailures(Cardinality(dl.segments_dir), Len(dl.segments))
       THEN \E ok \in ffmpeg_download_m3u8(dl.ffmpeg) :
              LET d == [dl EXCEPT !.log = Logged(dl, "ffmpeg_download_m3u8", ok)]
              IN  dl' = IF ok
                        THEN [d EXCEPT !.output = "ffmpeg", !.result = "success",
                                       !.pc = IF d.mp4 THEN "remux_return" ELSE "done"]
                        ELSE [d EXCEPT !.pc = "concat"]
       ELSE dl' = [dl EXCEPT !.pc = "concat"]
    /\ UNCHANGED <<content, net, ret, td, pool, hdr, tm, am, ad, fa, tg>>

\* concat_segments_to_ts(segments_dir, output_ts): raises when there is no file
DlConcat ==
    /\ dl.pc = "concat"
    /\ LET parts == Sorted(dl.segments_dir)
           d == [dl EXCEPT !.log = Logged(dl, "concat_segments_to_ts", parts # <<>>)]
       IN  dl' = IF parts = <<>> THEN Finish(d, "failure")
                 ELSE IF d.entry = "download.main"
                 THEN [d EXCEPT !.output = "concat", !.result = "success",
                                !.pc = IF d.mp4 THEN "remux_return" ELSE "done"]
                 ELSE [d EXCEPT !.output = "concat", !.pc = "remux"]
    /\ UNCHANGED <<content, net, ret, td, pool, hdr, tm, am, ad, fa, tg>>

\* shutil.which("ffmpeg") is None: False; otherwise the result of the remux run
optional_ffmpeg_mp4(installed) == IF installed THEN BOOLEAN ELSE {FALSE}

\* optional_ffmpeg_mp4(output_ts, mp4_path): the download succeeded either way
DlRemux ==
    /\ dl.pc \in {"remux", "remux_return"}
    /\ \E ok \in optional_ffmpeg_mp4(dl.ffmpeg) :
         dl' = Finish([dl EXCEPT !.log = Logged(dl, "optional_ffmpeg_mp4", ok)], "success")
    /\ UNCHANGED <<content, net, ret, td, pool, hdr, tm, am, ad, fa, tg>>

InitDownload ==
    /\ content = <<>>
    /\ net \in Manifests
    /\ ret = [f \in Functions |-> NotCalled]
    /\ am = AmIdle
    /\ ad = AdIdle
    /\ fa = FaIdle
    /\ tg = TgIdle
    /\ td = TdIdle
    /\ pool = PoolIdle
    /\ hdr = HdrIdle
    /\ tm = TmIdle
    /\ \E entry \in Entries, page \in BOOLEAN, yt_dlp \in BOOLEAN, mp4 \in BOOLEAN,
          ffmpeg \in BOOLEAN :
         /\ entry = "main.download_single_episode" => page
         /\ \E keep_temp \in (IF entry = "download.main" THEN BOOLEAN ELSE {FALSE}) :
              dl = [DlStartRecord(entry, page, yt_dlp, mp4, ffmpeg) EXCEPT
                      !.keep_temp = keep_temp,
                      !.pc = IF entry = "download.main" THEN "enter" ELSE "start"]

NextDownload ==
    \/ DlPrepare
    \/ DlStart
    \/ DlYtDlp
    \/ DlDetect
    \/ DlFfmpegEncrypted
    \/ DlResolve
    \/ DlProbe
    \/ DlFfmpegBlocked
    \/ DlManual
    \/ DlVerify
    \/ DlConcat
    \/ DlRemux

SpecDownload == InitDownload /\ [][NextDownload]_vars

(***************************************************************************)
(* Claims on the retrieval strategy                                        *)
(***************************************************************************)
RetrievalTiers ==
    {"yt_dlp_download_m3u8", "ffmpeg_download_m3u8", "download_segments_concurrent"}

\* the calls with which the manual retriever starts to fetch segments
ManualEntry == {"try_download", "download_segments_concurrent"}

\* C1: once the manifest has been detected as encrypted, a failure of the native-mux
\* (ffmpeg) download is terminal: download_segments_concurrent and
\* concat_segments_to_ts are never executed afterwards in that download.
C1_EncryptedFfmpegFailureIsTerminal ==
    \A i \in 1..Len(dl.log) :
        (dl.is_encrypted /\ dl.log[i].call = "ffmpeg_download_m3u8" /\ ~dl.log[i].ok)
        => \A j \in (i + 1)..Len(dl.log) :
              dl.log[j].call \notin {"download_segments_concurrent", "concat_segments_to_ts"}

\* C2: on the manual path concat_segments_to_ts assembles an output only when the
\* number of segments retrieved is at least 80% of the segments attempted; no
\* output file is assembled from a partial segment set.
C2_AssembleOnlySufficientSegments ==
    \A j \in 1..Len(dl.log) :
        (dl.log[j].call = "concat_segments_to_ts" /\ dl.log[j].ok)
        => \E i \in 1..(j - 1) :
              /\ dl.log[i].call = "download_segments_concurrent"
              /\ 10 * dl.log[i].succeeded >= 8 * dl.log[i].attempted

\* C3: in src/download.py main, if the probe of the first segment returns HTTP 401
\* or 403, download_segments_concurrent is never started in that download.
C3_BlockedProbeSkipsManual ==
    (/\ dl.entry = "download.main"
     /\ dl.probe # <<>>
     /\ ~dl.probe[1]
     /\ dl.probe[3] \in {Some(401), Some(403)})
    => \A j \in 1..Len(dl.log) : dl.log[j].call # "download_segments_concurrent"

\* the position of the first call after position i that enters a tier, 0 if none
FirstTierAfter(log, i) ==
    IF \E j \in (i + 1)..Len(log) : log[j].call \in RetrievalTiers \cup ManualEntry
    THEN CHOOSE j \in (i + 1)..Len(log) :
            /\ log[j].call \in RetrievalTiers \cup ManualEntry
            /\ \A k \in (i + 1)..(j - 1) : log[k].call \notin RetrievalTiers \cup ManualEntry
    ELSE 0

\* C6: when the external downloader (yt-dlp) is used: if it succeeds, the download
\* ends successfully and no other tier or the Assembler runs; if it fails, the next
\* tier entered is ffmpeg exactly when the manifest is detected as encrypted, and
\* the manual retriever otherwise.
C6_YtDlpThenTierByEncryption ==
    \A i \in 1..Len(dl.log) :
        dl.log[i].call = "yt_dlp_download_m3u8" =>
            /\ i = 1
            /\ dl.log[i].ok =>
                 /\ Len(dl.log) = 1
                 /\ dl.pc = "done"
                 /\ dl.result = "success"
                 /\ dl.output = "yt-dlp"
            /\ (~dl.log[i].ok /\ FirstTierAfter(dl.log, i) # 0) =>
                 LET next == dl.log[FirstTierAfter(dl.log, i)].call
                 IN  /\ next # "yt_dlp_download_m3u8"
                     /\ dl.is_encrypted <=> next = "ffmpeg_download_m3u8"
                     /\ ~dl.is_encrypted <=> next \in ManualEntry

\* C6 witness: yt-dlp failed on a manifest detected as encrypted and ffmpeg was the
\* next tier entered
C6_Witness ==
    /\ Len(dl.log) >= 3
    /\ dl.log[1].call = "yt_dlp_download_m3u8"
    /\ ~dl.log[1].ok
    /\ dl.is_encrypted
    /\ dl.log[3].call = "ffmpeg_download_m3u8"

\* C19: after the full manual run in src/download.py main, the escalation to the
\* native-mux (ffmpeg) fallback is taken if and only if succeeded < 0.8 * attempted
\* (7 of 9 escalates, 8 of 10 does not).
C19_EscalateIffBelowFourFifths ==
    \A i \in 1..Len(dl.log) :
        (/\ dl.entry = "download.main"
         /\ dl.log[i].call = "download_segments_concurrent"
         /\ dl.pc # "verify")
        => ((i < Len(dl.log) /\ dl.log[i + 1].call = "ffmpeg_download_m3u8")
            <=> 10 * dl.log[i].succeeded < 8 * dl.log[i].attempted)

\* the manifest chain of the download cannot be resolved: the top-level playlist or
\* the chosen variant playlist cannot be fetched or parsed
Unresolvable(n) == resolve_segments_from_m3u8(n, M3u8Url).exc # ""

\* C7: if the manifest chain cannot be resolved, the download ends in failure and no
\* retrieval tier is run for it, with or without the --yt-dlp option.
C7_UnresolvableManifestRunsNoTier ==
    Unresolvable(net) =>
        /\ \A j \in 1..Len(dl.log) : dl.log[j].call \notin RetrievalTiers
        /\ dl.pc = "done" => dl.result = "failure"

(***************************************************************************)
(* Segment files: names, atomic write, assembly                            *)
(***************************************************************************)
\* the width of the zero padding in f"{index:06d}.ts"
PadWidth == 6

DigitChar(d) == CHOOSE c \in Digits : DigitVal(c) = d

\* str(n) of a natural number
RECURSIVE Decimal(_)
Decimal(n) ==
    IF n < 10 THEN <<DigitChar(n)>>
    ELSE Decimal(n \div 10) \o <<DigitChar(n % 10)>>

RECURSIVE ZeroPad(_, _)
ZeroPad(s, width) == IF Len(s) >= width THEN s ELSE ZeroPad(<<"0">> \o s, width)

\* f"{index:06d}"
Format06d(index) == ZeroPad(Decimal(index), PadWidth)

\* a path in the segments directory: the stem of the file name and its suffixes
Path(stem, suffixes) == [stem |-> stem, suffixes |-> suffixes]

\* a file name made of the index without padding
UnpaddedPath(index) == Path(Decimal(index), <<".ts">>)

\* out_dir / f"{index:06d}.ts"
SegmentPath(index) == Path(Format06d(index), <<".ts">>)

\* path.suffix
suffix(path) ==
    IF path.suffixes = <<>> THEN "" ELSE path.suffixes[Len(path.suffixes)]

\* path.with_suffix(s): the last suffix replaced by the suffixes of s
with_suffix(path, s) ==
    Path(path.stem, SubSeq(path.suffixes, 1, Len(path.suffixes) - 1) \o s)

\* a write that goes to the final path itself
InPlace(path) == path

\* tmp = path.with_suffix(path.suffix + ".part")
TmpOf(path) == with_suffix(path, <<suffix(path), ".part">>)

\* the characters of a file name, and their order in a string comparison
SuffixChars(sfx) ==
    CASE sfx = ".ts" -> <<".", "t", "s">>
      [] sfx = ".part" -> <<".", "p", "a", "r", "t">>
      [] sfx = ".mp4" -> <<".", "m", "p", "4">>
      [] OTHER -> <<>>

RECURSIVE FlattenSuffixes(_)
FlattenSuffixes(sfxs) ==
    IF sfxs = <<>> THEN <<>> ELSE SuffixChars(Head(sfxs)) \o FlattenSuffixes(Tail(sfxs))

NameOf(path) == path.stem \o FlattenSuffixes(path.suffixes)

Ord(c) ==
    CASE c \in Digits -> 48 + DigitVal(c)
      [] c = "." -> 46
      [] c = "a" -> 97
      [] c = "m" -> 109
      [] c = "p" -> 112
      [] c = "r" -> 114
      [] c = "s" -> 115
      [] c = "t" -> 116

\* a < b for two strings
RECURSIVE StrLess(_, _)
StrLess(a, b) ==
    IF b = <<>> THEN FALSE
    ELSE IF a = <<>> THEN TRUE
    ELSE IF Head(a) = Head(b) THEN StrLess(Tail(a), Tail(b))
    ELSE Ord(Head(a)) < Ord(Head(b))

\* a file of the directory; the directory is the sequence of its files in the order
\* in which a listing yields them
File(path, data) == [path |-> path, data |-> data]

\* a pattern that selects every file of the directory
MatchesAny(file) == TRUE

\* segments_dir.glob("*.ts")
MatchesTs(file) == suffix(file.path) = ".ts"
glob(dir) == SelectSeq(dir, MatchesTs)

RECURSIVE Insert(_, _)
Insert(parts, f) ==
    IF parts = <<>> THEN <<f>>
    ELSE IF StrLess(NameOf(f.path), NameOf(Head(parts).path)) THEN <<f>> \o parts
    ELSE <<Head(parts)>> \o Insert(Tail(parts), f)

RECURSIVE InsertionSort(_)
InsertionSort(parts) ==
    IF parts = <<>> THEN <<>>
    ELSE Insert(InsertionSort(SubSeq(parts, 1, Len(parts) - 1)), parts[Len(parts)])

\* the parts taken as the listing yields them
listing_order(parts) == parts

\* sorted(parts)
sorted_paths(parts) == InsertionSort(parts)

\* for p in parts: out.write(p.read_bytes())
RECURSIVE ReadAll(_)
ReadAll(parts) == IF parts = <<>> THEN <<>> ELSE Head(parts).data \o ReadAll(Tail(parts))

\* concat_segments_to_ts(segments_dir, output_ts): the bytes written to output_ts
concat_segments_to_ts(dir) ==
    LET parts == sorted_paths(glob(dir))
    IN  IF parts = <<>> THEN Raise("RuntimeError") ELSE Ok(ReadAll(parts))

\* the directory with the file at path created or truncated and holding data
WriteFile(dir, path, data) ==
    IF \E k \in 1..Len(dir) : dir[k].path = path
    THEN [k \in 1..Len(dir) |-> IF dir[k].path = path THEN File(path, data) ELSE dir[k]]
    ELSE Append(dir, File(path, data))

\* the bytes of the file at path
ReadFile(dir, path) == dir[CHOOSE k \in 1..Len(dir) : dir[k].path = path].data

\* tmp.replace(path): the file at tmp gets the name path, a file already there is
\* replaced
ReplaceFile(dir, tmp, path) ==
    LET kept == SelectSeq(dir, LAMBDA f : f.path # path \/ tmp = path)
    IN  [k \in 1..Len(kept) |->
            IF kept[k].path = tmp THEN File(path, kept[k].data) ELSE kept[k]]

(***************************************************************************)
(* download_segments_concurrent: the worker pool, the progress counters,   *)
(* the printer thread, and the assembly of what it leaves in the directory *)
(***************************************************************************)
MaxPoolSegments == 3   \* segments of the list given to download_segments_concurrent
MaxWorkers == 2        \* largest value of the concurrency argument
MaxFiles == 3          \* files of a directory handed to concat_segments_to_ts

\* the bytes the server holds for the segment: one or two bytes that carry its index
SegmentBytes(index) == [k \in 1..(1 + (index % 2)) |-> index]

\* a submitted task; local is the value a thread has loaded for an update; attempts
\* counts the calls of task for the segment and failed_at_start records how many
\* tasks had failed when this one started
QueuedTask ==
    [pc |-> "queued", ok |-> FALSE, local |-> 0, attempts |-> 0, failed_at_start |-> 0]

\* the state at the entry of download_segments_concurrent(urls, ..., out_dir, concurrency)
\* with len(urls) = n; writers records which task wrote which path, before is the
\* directory as the call found it
PoolStart(n, concurrency) ==
    [pc |-> "start", n |-> n, concurrency |-> concurrency,
     task |-> [i \in 0..(n - 1) |-> QueuedTask],
     dir |-> <<>>,
     before |-> <<>>,
     progress |-> [done |-> 0, bytes |-> 0, stop |-> FALSE],
     lock |-> None,
     printer |-> [pc |-> "unstarted", done |-> 0, bytes_dl |-> 0],
     writers |-> {},
     output |-> None]

Tasks(p) == DOMAIN p.task
Running(p) == { i \in Tasks(p) : p.task[i].pc \notin {"queued", "finished"} }
Failed(p) == { i \in Tasks(p) : p.task[i].pc = "finished" /\ ~p.task[i].ok }
Succeeded(p) == { i \in Tasks(p) : p.task[i].pc = "finished" /\ p.task[i].ok }

\* out_dir.mkdir(...); progress = {...}; the printer thread is started;
\* ThreadPoolExecutor(max_workers=concurrency) raises ValueError unless
\* concurrency > 0; futures = [executor.submit(task, (i, u)) for i, u in enumerate(urls)]
DscStart ==
    /\ pool.pc = "start"
    /\ pool' = [pool EXCEPT !.printer.pc = "loop",
                            !.pc = IF pool.concurrency <= 0 THEN "raised" ELSE "running"]
    /\ UNCHANGED <<content, net, ret, td, dl, hdr, tm, am, ad, fa, tg>>

\* a pool that starts a queued task whatever number of tasks is running
CanStartAlways(running, concurrency) == TRUE

\* max_workers: a worker thread is free to take the next work item
CanStart(running, concurrency) == running < concurrency

\* a worker takes the oldest queued work item and calls task((i, u)), which calls
\* try_download(seg_url, headers, timeout, retries, backoff=0.5)
TaskStart(i) ==
    /\ pool.pc = "running"
    /\ pool.task[i].pc = "queued"
    /\ \A j \in Tasks(pool) : j < i => pool.task[j].pc # "queued"
    /\ CanStart(Cardinality(Running(pool)), pool.concurrency)
    /\ pool' = [pool EXCEPT !.task[i].pc = "fetch",
                            !.task[i].attempts = @ + 1,
                            !.task[i].failed_at_start = Cardinality(Failed(pool))]
    /\ UNCHANGED <<content, net, ret, td, dl, hdr, tm, am, ad, fa, tg>>

\* ok, data, code = try_download(...), decided by the answer to its last request;
\* if ok and data is not None: write_atomic(...), else return index, ok, code
TaskFetched(i) ==
    /\ pool.pc = "running"
    /\ pool.task[i].pc = "fetch"
    /\ \E resp \in Responses :
         LET res == TdAfterRequest(TdStart(0), resp).result
         IN  pool' = IF res[1] /\ res[2] # None
                     THEN [pool EXCEPT !.task[i].pc = "open_tmp"]
                     ELSE [pool EXCEPT !.task[i].pc = "finished", !.task[i].ok = FALSE]
    /\ UNCHANGED <<content, net, ret, td, dl, hdr, tm, am, ad, fa, tg>>

\* tmp.write_bytes(data): the file is opened for writing, which creates it empty
TaskOpenTmp(i) ==
    /\ pool.pc = "running"
    /\ pool.task[i].pc = "open_tmp"
    /\ LET tmp == TmpOf(SegmentPath(i))
       IN  pool' = [pool EXCEPT !.task[i].pc = "write_tmp",
                                !.dir = WriteFile(@, tmp, <<>>),
                                !.writers = @ \cup {<<tmp, i>>}]
    /\ UNCHANGED <<content, net, ret, td, dl, hdr, tm, am, ad, fa, tg>>

\* tmp.write_bytes(data): the next byte reaches the file; after the last one the
\* file is closed
TaskWriteBytes(i) ==
    /\ pool.pc = "running"
    /\ pool.task[i].pc = "write_tmp"
    /\ LET tmp == TmpOf(SegmentPath(i))
           written == SubSeq(SegmentBytes(i), 1, Len(ReadFile(pool.dir, tmp)) + 1)
       IN  pool' = [pool EXCEPT
                      !.task[i].pc = IF written = SegmentBytes(i) THEN "replace"
                                     ELSE "write_tmp",
                      !.dir = WriteFile(@, tmp, written)]
    /\ UNCHANGED <<content, net, ret, td, dl, hdr, tm, am, ad, fa, tg>>

\* tmp.replace(path)
TaskReplace(i) ==
    /\ pool.pc = "running"
    /\ pool.task[i].pc = "replace"
    /\ LET path == SegmentPath(i)
       IN  pool' = [pool EXCEPT !.task[i].pc = "acquire",
                                !.dir = ReplaceFile(@, TmpOf(path), path),
                                !.writers = @ \cup {<<path, i>>}]
    /\ UNCHANGED <<content, net, ret, td, dl, hdr, tm, am, ad, fa, tg>>

\* a lock that is handed out while another thread holds it
LockIgnored(lock) == TRUE

\* threading.Lock: it is acquired only when no thread holds it
LockFree(lock) == lock = None

\* with progress_lock:
TaskAcquire(i) ==
    /\ pool.pc = "running"
    /\ pool.task[i].pc = "acquire"
    /\ LockFree(pool.lock)
    /\ pool' = [pool EXCEPT !.task[i].pc = "load_done", !.lock = Some(i)]
    /\ UNCHANGED <<content, net, ret, td, dl, hdr, tm, am, ad, fa, tg>>

\* progress["done"] += 1: the value is loaded ...
TaskLoadDone(i) ==
    /\ pool.pc = "running"
    /\ pool.task[i].pc = "load_done"
    /\ pool' = [pool EXCEPT !.task[i].pc = "store_done",
                            !.task[i].local = pool.progress.done]
    /\ UNCHANGED <<content, net, ret, td, dl, hdr, tm, am, ad, fa, tg>>

\* ... and the incremented value is stored
TaskStoreDone(i) ==
    /\ pool.pc = "running"
    /\ pool.task[i].pc = "store_done"
    /\ pool' = [pool EXCEPT !.task[i].pc = "load_bytes", !.task[i].local = 0,
                            !.progress.done = pool.task[i].local + 1]
    /\ UNCHANGED <<content, net, ret, td, dl, hdr, tm, am, ad, fa, tg>>

\* progress["bytes"] += len(data): the value is loaded ...
TaskLoadBytes(i) ==
    /\ pool.pc = "running"
    /\ pool.task[i].pc = "load_bytes"
    /\ pool' = [pool EXCEPT !.task[i].pc = "store_bytes",
                            !.task[i].local = pool.progress.bytes]
    /\ UNCHANGED <<content, net, ret, td, dl, hdr, tm, am, ad, fa, tg>>

\* ... and the sum is stored; the lock is released; return index, ok, code
TaskStoreBytes(i) ==
    /\ pool.pc = "running"
    /\ pool.task[i].pc = "store_bytes"
    /\ pool' = [pool EXCEPT !.task[i].pc = "finished", !.task[i].ok = TRUE,
                            !.task[i].local = 0,
                            !.progress.bytes = pool.task[i].local + Len(SegmentBytes(i)),
                            !.lock = None]
    /\ UNCHANGED <<content, net, ret, td, dl, hdr, tm, am, ad, fa, tg>>

\* printer: if progress["stop"]: break
PrinterExit ==
    /\ pool.pc # "crashed"
    /\ pool.printer.pc = "loop"
    /\ pool.progress.stop
    /\ pool' = [pool EXCEPT !.printer.pc = "exited"]
    /\ UNCHANGED <<content, net, ret, td, dl, hdr, tm, am, ad, fa, tg>>

\* printer: done = progress["done"]
PrinterReadDone ==
    /\ pool.pc # "crashed"
    /\ pool.printer.pc = "loop"
    /\ ~pool.progress.stop
    /\ pool' = [pool EXCEPT !.printer.pc = "read_bytes",
                            !.printer.done = pool.progress.done]
    /\ UNCHANGED <<content, net, ret, td, dl, hdr, tm, am, ad, fa, tg>>

\* printer: bytes_dl = progress["bytes"]; the message with done and bytes_dl is
\* printed
PrinterPrint ==
    /\ pool.pc # "crashed"
    /\ pool.printer.pc = "read_bytes"
    /\ pool' = [pool EXCEPT !.printer.pc = "loop",
                            !.printer.bytes_dl = pool.progress.bytes]
    /\ UNCHANGED <<content, net, ret, td, dl, hdr, tm, am, ad, fa, tg>>

\* the with block ends when every future is done; progress["stop"] = True
DscStop ==
    /\ pool.pc = "running"
    /\ \A i \in Tasks(pool) : pool.task[i].pc = "finished"
    /\ pool' = [pool EXCEPT !.pc = "stopping", !.progress.stop = TRUE]
    /\ UNCHANGED <<content, net, ret, td, dl, hdr, tm, am, ad, fa, tg>>

\* printer_thread.join(timeout=1.0), whether or not the printer has ended; return
DscReturn ==
    /\ pool.pc = "stopping"
    /\ pool' = [pool EXCEPT !.pc = "returned"]
    /\ UNCHANGED <<content, net, ret, td, dl, hdr, tm, am, ad, fa, tg>>

\* the process is killed while download_segments_concurrent runs: every thread
\* stops where it is and the directory stays as it is
Crash ==
    /\ pool.pc \in {"running", "stopping"}
    /\ pool' = [pool EXCEPT !.pc = "crashed"]
    /\ UNCHANGED <<content, net, ret, td, dl, hdr, tm, am, ad, fa, tg>>

\* concat_segments_to_ts(segments_dir, output_ts)
Call_concat_segments_to_ts ==
    /\ pool.pc = "returned"
    /\ LET r == concat_segments_to_ts(pool.dir)
       IN  pool' = IF r.exc # "" THEN [pool EXCEPT !.pc = "concat_raised"]
                   ELSE [pool EXCEPT !.pc = "assembled", !.output = Some(r.val)]
    /\ UNCHANGED <<content, net, ret, td, dl, hdr, tm, am, ad, fa, tg>>

InitPool ==
    /\ content = <<>>
    /\ net = <<>>
    /\ ret = [f \in Functions |-> NotCalled]
    /\ am = AmIdle
    /\ ad = AdIdle
    /\ fa = FaIdle
    /\ tg = TgIdle
    /\ td = TdIdle
    /\ dl = DlIdle
    /\ hdr = HdrIdle
    /\ tm = TmIdle
    /\ \E n \in 0..MaxPoolSegments, concurrency \in 0..MaxWorkers :
         pool = PoolStart(n, concurrency)

NextPool ==
    \/ DscStart
    \/ \E i \in Tasks(pool) : TaskStart(i)
    \/ \E i \in Tasks(pool) : TaskFetched(i)
    \/ \E i \in Tasks(pool) : TaskOpenTmp(i)
    \/ \E i \in Tasks(pool) : TaskWriteBytes(i)
    \/ \E i \in Tasks(pool) : TaskReplace(i)
    \/ \E i \in Tasks(pool) : TaskAcquire(i)
    \/ \E i \in Tasks(pool) : TaskLoadDone(i)
    \/ \E i \in Tasks(pool) : TaskStoreDone(i)
    \/ \E i \in Tasks(pool) : TaskLoadBytes(i)
    \/ \E i \in Tasks(pool) : TaskStoreBytes(i)
    \/ PrinterExit
    \/ PrinterReadDone
    \/ PrinterPrint
    \/ DscStop
    \/ DscReturn
    \/ Crash
    \/ Call_concat_segments_to_ts

SpecPool == InitPool /\ [][NextPool]_vars

\* Directories handed to concat_segments_to_ts: up to MaxFiles files with different
\* names, segment files, a temporary file and a file of another type, in any
\* listing order
AssemblePaths ==
    { SegmentPath(0), SegmentPath(1), SegmentPath(2), SegmentPath(999999),
      SegmentPath(1000000),
      TmpOf(SegmentPath(1)), Path(Format06d(0), <<".mp4">>) }

AssembleData == { <<>>, <<7>>, <<8, 9>> }

Directories ==
    { d \in UNION { [1..k -> { File(p, b) : p \in AssemblePaths, b \in AssembleData }]
                      : k \in 0..MaxFiles } :
        \A i, j \in 1..Len(d) : i # j => d[i].path # d[j].path }

InitAssemble ==
    /\ content = <<>>
    /\ net = <<>>
    /\ ret = [f \in Functions |-> NotCalled]
    /\ am = AmIdle
    /\ ad = AdIdle
    /\ fa = FaIdle
    /\ tg = TgIdle
    /\ td = TdIdle
    /\ dl = DlIdle
    /\ hdr = HdrIdle
    /\ tm = TmIdle
    /\ \E d \in Directories : pool = [PoolStart(0, 1) EXCEPT !.pc = "returned", !.dir = d]

NextAssemble == Call_concat_segments_to_ts

SpecAssemble == InitAssemble /\ [][NextAssemble]_vars

(***************************************************************************)
(* Claims on the worker pool and the assembly                              *)
(***************************************************************************)
\* download_segments_concurrent has left its with block
PoolJoined == pool.pc \in {"stopping", "returned", "assembled", "concat_raised"}

\* the path is the 6-digit zero-padded decimal index followed by .ts
IsSegmentName(path, index) ==
    /\ Len(path.stem) = 6
    /\ \A k \in 1..6 : path.stem[k] \in Digits
    /\ IntOf(path.stem) = index
    /\ path.suffixes = <<".ts">>

\* C12: download_segments_concurrent started on an empty directory (with a
\* concurrency of at least 1) attempts every segment of the list exactly once as a
\* task however many segments fail, and when it returns the files present are exactly
\* those named by the 6-digit zero-padded index of the segments whose fetch succeeded.
C12_EverySegmentAttemptedOnce ==
    /\ pool.pc # "idle" => \A i \in Tasks(pool) : pool.task[i].attempts <= 1
    /\ PoolJoined =>
         /\ \A i \in Tasks(pool) :
              pool.task[i].pc = "finished" /\ pool.task[i].attempts = 1
         /\ Len(pool.dir) = Cardinality(Succeeded(pool))
         /\ \A k \in 1..Len(pool.dir) :
              \E i \in Succeeded(pool) : IsSegmentName(pool.dir[k].path, i)
         /\ \A i \in Succeeded(pool) :
              \E k \in 1..Len(pool.dir) : IsSegmentName(pool.dir[k].path, i)

\* C12 witness: of three segments the first succeeded and the other two failed; the
\* call has returned and the directory holds 000000.ts only
C12_Witness ==
    /\ pool.pc = "returned"
    /\ pool.n = 3
    /\ pool.task[0].ok /\ ~pool.task[1].ok /\ ~pool.task[2].ok
    /\ \A i \in 0..2 : pool.task[i].attempts = 1
    /\ Len(pool.dir) = 1
    /\ pool.dir[1].path = Path(<<"0", "0", "0", "0", "0", "0">>, <<".ts">>)

\* the bytes of the segments that succeeded, in increasing index from index i on
RECURSIVE BytesInIndexOrder(_, _)
BytesInIndexOrder(p, i) ==
    IF i >= p.n THEN <<>>
    ELSE (IF p.task[i].ok THEN SegmentBytes(i) ELSE <<>>) \o BytesInIndexOrder(p, i + 1)

\* C13: for every interleaving of the workers and every completion order, the
\* assembled output holds the bytes of the successfully retrieved segments in
\* strictly increasing manifest index: all bytes of i precede all bytes of j for i < j.
C13_AssembledInIndexOrder ==
    pool.pc = "assembled" =>
        pool.output = Some(BytesInIndexOrder(pool, 0))

\* C13 witness: segment 1 reached the directory before segment 0, and both were
\* assembled
C13_Witness ==
    /\ pool.pc = "assembled"
    /\ Len(pool.dir) >= 2
    /\ pool.dir[1].path = SegmentPath(1)
    /\ pool.dir[2].path = SegmentPath(0)
    /\ pool.output = Some(SegmentBytes(0) \o SegmentBytes(1))

\* the positions of the directory whose file name ends in .ts, and the rank of such
\* a file among them by name
TsFiles(dir) ==
    { k \in 1..Len(dir) :
        dir[k].path.suffixes # <<>>
        /\ dir[k].path.suffixes[Len(dir[k].path.suffixes)] = ".ts" }

RankByName(dir, k) ==
    1 + Cardinality({ j \in TsFiles(dir) :
                        StrLess(NameOf(dir[j].path), NameOf(dir[k].path)) })

RECURSIVE BytesFromRank(_, _)
BytesFromRank(dir, r) ==
    IF r > Cardinality(TsFiles(dir)) THEN <<>>
    ELSE dir[CHOOSE k \in TsFiles(dir) : RankByName(dir, k) = r].data
         \o BytesFromRank(dir, r + 1)

RECURSIVE SumOfLengths(_, _)
SumOfLengths(dir, S) ==
    IF S = {} THEN 0
    ELSE LET k == CHOOSE x \in S : TRUE
         IN  Len(dir[k].data) + SumOfLengths(dir, S \ {k})

\* C14: concat_segments_to_ts fails with an error and writes no output when the
\* directory holds no segment file; otherwise the output is the concatenation of
\* the segment files in lexicographic name order, and its length is the sum of the
\* lengths of the segment files.
C14_ConcatIsOrderedConcatenation ==
    /\ pool.pc = "concat_raised" => (TsFiles(pool.dir) = {} /\ pool.output = None)
    /\ pool.pc = "assembled" =>
         /\ TsFiles(pool.dir) # {}
         /\ pool.output = Some(BytesFromRank(pool.dir, 1))
         /\ Len(pool.output[1]) = SumOfLengths(pool.dir, TsFiles(pool.dir))

\* C14 witness: the files 000000.ts, 000002.ts, 000001.ts, listed in this order,
\* have been assembled as 000000, 000001, 000002
C14_Witness ==
    /\ pool.pc = "assembled"
    /\ pool.dir = << File(SegmentPath(0), <<7>>), File(SegmentPath(2), <<8, 9>>),
                     File(SegmentPath(1), <<>>) >>
    /\ pool.output = Some(<<7, 8, 9>>)

\* the segment index a final or temporary file name stands for
IndexOf(path) == IntOf(path.stem)

\* C15: in every reachable state, a crash between any two steps of write_atomic
\* included, a file visible under a final segment name (NNNNNN.ts) holds the complete
\* bytes of one successful fetch of that segment; a partially written file exists
\* only under the temporary name (.ts.part), which the *.ts selection of
\* concat_segments_to_ts never picks up.
C15_FinalNameHoldsCompleteSegment ==
    pool.pc # "idle" =>
        /\ \A k \in 1..Len(pool.dir) :
             LET f == pool.dir[k]
                 index == IndexOf(f.path)
             IN  /\ f.path.suffixes \in {<<".ts">>, <<".ts", ".part">>}
                 /\ index \in Tasks(pool)
                 /\ f.path.suffixes = <<".ts">> =>
                      /\ f.data = SegmentBytes(index)
                      /\ pool.task[index].pc
                            \notin {"queued", "fetch", "open_tmp", "write_tmp", "replace"}
                 /\ f.data # SegmentBytes(index) =>
                      f.path.suffixes = <<".ts", ".part">>
        /\ LET parts == glob(pool.dir)
           IN  \A k \in 1..Len(parts) : parts[k].path.suffixes = <<".ts">>

\* C15 witness: the process was killed when 000001.ts.part held the first of its
\* two bytes and 000000.ts was already in place; the selection yields 000000.ts alone
C15_Witness ==
    /\ pool.pc = "crashed"
    /\ pool.dir = << File(SegmentPath(0), SegmentBytes(0)),
                     File(Path(Format06d(1), <<".ts", ".part">>), <<1>>) >>
    /\ glob(pool.dir) = << File(SegmentPath(0), SegmentBytes(0)) >>

\* C16: at every moment of download_segments_concurrent at most `concurrency`
\* segment fetches are in flight (at most `concurrency` tasks run), and each segment
\* file is written by exactly one worker: no two tasks ever write the same final or
\* temporary path.
C16_BoundedFetchesOneWriterPerPath ==
    pool.pc # "idle" =>
        /\ Cardinality({ i \in Tasks(pool) : pool.task[i].pc = "fetch" })
              <= pool.concurrency
        /\ Cardinality(Running(pool)) <= pool.concurrency
        /\ \A w1, w2 \in pool.writers : w1[1] = w2[1] => w1[2] = w2[2]
        /\ \A k \in 1..Len(pool.dir) :
             Cardinality({ w \in pool.writers : w[1] = pool.dir[k].path }) = 1

\* C16 witness: with a concurrency of 2 and three segments, two fetches are in
\* flight and the third segment waits in the queue
C16_Witness ==
    /\ pool.pc = "running"
    /\ pool.concurrency = 2
    /\ pool.n = 3
    /\ pool.task[0].pc = "fetch"
    /\ pool.task[1].pc = "fetch"
    /\ pool.task[2].pc = "queued"

\* the number of segment files renamed into place
Renamed(p) == Cardinality({ k \in 1..Len(p.dir) : p.dir[k].path.suffixes = <<".ts">> })

RECURSIVE BytesOf(_)
BytesOf(S) ==
    IF S = {} THEN 0
    ELSE LET i == CHOOSE x \in S : TRUE
         IN  Len(SegmentBytes(i)) + BytesOf(S \ {i})

\* C17: under every interleaving of the workers and the printer thread the progress
\* counters lose no update: `done` never decreases and never exceeds the number of
\* segment files renamed into place, and when all workers have finished `done` is the
\* number of segments that succeeded and `bytes` the sum of their lengths.
C17_ProgressCountersLoseNoUpdate ==
    /\ [](pool.pc # "idle" =>
            /\ pool.progress.done <= Renamed(pool)
            /\ PoolJoined =>
                 /\ pool.progress.done = Cardinality(Succeeded(pool))
                 /\ pool.progress.bytes = BytesOf(Succeeded(pool)))
    /\ [][pool.pc # "idle" => pool'.progress.done >= pool.progress.done]_vars

\* C17 witness: three segments fetched by two workers while the printer was
\* reporting; the call has returned with done = 3 and bytes = 4
C17_Witness ==
    /\ pool.pc = "returned"
    /\ pool.concurrency = 2
    /\ pool.n = 3
    /\ pool.progress.done = 3
    /\ pool.progress.bytes = 4
    /\ pool.printer.done >= 1

\* with `failed` of `total` segments failed, 80% of the segments cannot succeed
SuccessImpossible(failed, total) == 10 * (total - failed) < 8 * total

\* C18: once so many segments of a run of download_segments_concurrent have failed
\* that reaching the 80% success ratio is impossible, the segments whose fetch has
\* not started yet are not fetched.
C18_NoFetchStartsOnceSuccessImpossible ==
    pool.pc # "idle" =>
        \A i \in Tasks(pool) :
            pool.task[i].pc # "queued"
            => ~SuccessImpossible(pool.task[i].failed_at_start, pool.n)

\* the rank of a segment file among the segment files by the index in its name
RankByIndex(dir, k) ==
    1 + Cardinality({ j \in TsFiles(dir) : IndexOf(dir[j].path) < IndexOf(dir[k].path) })

RECURSIVE BytesFromIndexRank(_, _)
BytesFromIndexRank(dir, r) ==
    IF r > Cardinality(TsFiles(dir)) THEN <<>>
    ELSE dir[CHOOSE k \in TsFiles(dir) : RankByIndex(dir, k) = r].data
         \o BytesFromIndexRank(dir, r + 1)

\* C24: for every segment count, indices beyond the width of the zero padding
\* (index >= 1,000,000) included, sorting the segment file names lexicographically
\* yields the segments in increasing numeric index, so the assembled output holds the
\* segment files in index order.
C24_NameOrderIsIndexOrder ==
    pool.pc = "assembled" => pool.output = Some(BytesFromIndexRank(pool.dir, 1))

\* C28: during one run of src/download.py main no retrieval tier is entered more
\* than once: yt-dlp, ffmpeg_download_m3u8 and the manual retriever are each invoked
\* at most once.
C28_EachTierEnteredAtMostOnce ==
    dl.pc # "idle" /\ dl.entry = "download.main" =>
        \A tier \in RetrievalTiers :
            Cardinality({ i \in 1..Len(dl.log) : dl.log[i].call = tier }) <= 1

(***************************************************************************)
(* Request headers: build_headers and augment_browser_headers              *)
(*                                                                         *)
(* A header text is a sequence of tokens: a word, the separator ":" or a   *)
(* blank " ".  A dict is a function from keys to values, keys and values    *)
(* being token sequences (the empty sequence is the empty string).         *)
(***************************************************************************)
MaxHeaders == 2        \* --header options given on one command line

DEFAULT_UA == <<"Mozilla/5.0">>

RECURSIVE lstrip(_)
lstrip(text) ==
    IF text # <<>> /\ Head(text) = " " THEN lstrip(Tail(text)) ELSE text

RECURSIVE rstrip(_)
rstrip(text) ==
    IF text # <<>> /\ text[Len(text)] = " "
    THEN rstrip(SubSeq(text, 1, Len(text) - 1))
    ELSE text

str_strip(text) == rstrip(lstrip(text))

HasColon(text) == \E i \in 1..Len(text) : text[i] = ":"

FirstColon(text) ==
    CHOOSE i \in 1..Len(text) :
        text[i] = ":" /\ \A j \in 1..(i - 1) : text[j] # ":"

\* header.split(":", 1): the text before the first ":" and all the text after it
split_once(text) ==
    [key |-> SubSeq(text, 1, FirstColon(text) - 1),
     value |-> SubSeq(text, FirstColon(text) + 1, Len(text))]

\* d[k] = v
SetItem(d, k, v) == [x \in (DOMAIN d) \cup {k} |-> IF x = k THEN v ELSE d[x]]

setalways(d, k, v) == SetItem(d, k, v)

\* d.setdefault(k, v)
setdefault(d, k, v) == IF k \in DOMAIN d THEN d ELSE SetItem(d, k, v)

\* x or y, for strings
Or(x, y) == IF x # <<>> THEN x ELSE y

DefaultHeaders(user_agent, referer) ==
    LET base == [k \in {<<"User-Agent">>, <<"Accept">>, <<"Accept-Encoding">>,
                        <<"Connection">>, <<"DNT">>, <<"Origin">>} |->
                    CASE k = <<"User-Agent">> -> Or(user_agent, DEFAULT_UA)
                      [] k = <<"Accept">> -> <<"*/*">>
                      [] k = <<"Accept-Encoding">> -> <<"identity">>
                      [] k = <<"Connection">> -> <<"keep-alive">>
                      [] k = <<"DNT">> -> <<"1">>
                      [] k = <<"Origin">> -> Or(referer, <<>>)]
    IN  IF referer # <<>> THEN SetItem(base, <<"Referer">>, referer) ELSE base

RECURSIVE AddExtraHeaders(_, _)
AddExtraHeaders(headers, extra_headers) ==
    IF extra_headers = <<>> THEN headers
    ELSE LET header == Head(extra_headers)
             kv == split_once(header)
         IN  IF ~HasColon(header)
             THEN AddExtraHeaders(headers, Tail(extra_headers))
             ELSE AddExtraHeaders(
                      SetItem(headers, str_strip(kv.key), str_strip(kv.value)),
                      Tail(extra_headers))

build_headers(user_agent, referer, extra_headers) ==
    AddExtraHeaders(DefaultHeaders(user_agent, referer), extra_headers)

augment_browser_headers(headers) ==
    setdefault(
        setdefault(
            setdefault(
                setdefault(headers, <<"Sec-Fetch-Mode">>, <<"cors">>),
                <<"Sec-Fetch-Site">>, <<"cross-site">>),
            <<"Sec-Fetch-Dest">>, <<"empty">>),
        <<"Accept">>, <<"*/*">>)

\* the --header texts a command line is built from
HeaderTexts ==
    { <<"X-Token", ":", " ", "a">>,
      <<"X-Token", ":", "b">>,
      <<" ", "X-Token", " ", ":", " ", "a", " ", "b", " ">>,
      <<"Accept", ":", " ", "text/html">>,
      <<"Sec-Fetch-Mode", ":", " ", "navigate">>,
      <<"Referer", ":", " ", "https", ":", "//site/">>,
      <<"NoSeparator">> }

HeaderLists == UNION { [1..n -> HeaderTexts] : n \in 0..MaxHeaders }

UserAgents == { <<>>, <<"curl/8">> }
Referers == { <<>>, <<"https", ":", "//site/">> }

InitHeaders ==
    /\ content = <<>>
    /\ net = <<>>
    /\ ret = [f \in Functions |-> NotCalled]
    /\ am = AmIdle
    /\ ad = AdIdle
    /\ fa = FaIdle
    /\ tg = TgIdle
    /\ td = TdIdle
    /\ dl = DlIdle
    /\ pool = PoolIdle
    /\ tm = TmIdle
    /\ \E user_agent \in UserAgents, referer \in Referers, extra_headers \in HeaderLists :
         hdr = [pc |-> "args", user_agent |-> user_agent, referer |-> referer,
                extra_headers |-> extra_headers]

Call_build_headers ==
    /\ hdr.pc = "args"
    /\ hdr' = [pc |-> "built", user_agent |-> hdr.user_agent, referer |-> hdr.referer,
               extra_headers |-> hdr.extra_headers,
               headers |-> build_headers(hdr.user_agent, hdr.referer, hdr.extra_headers)]
    /\ UNCHANGED <<content, net, ret, td, dl, pool, tm, am, ad, fa, tg>>

\* the argument of a call is the dict of the previous step; it is kept as `arg`
Call_augment_browser_headers ==
    /\ hdr.pc \in {"built", "augmented"}
    /\ hdr' = [pc |-> IF hdr.pc = "built" THEN "augmented" ELSE "augmented twice",
               user_agent |-> hdr.user_agent, referer |-> hdr.referer,
               extra_headers |-> hdr.extra_headers,
               arg |-> hdr.headers,
               headers |-> augment_browser_headers(hdr.headers)]
    /\ UNCHANGED <<content, net, ret, td, dl, pool, tm, am, ad, fa, tg>>

NextHeaders ==
    \/ Call_build_headers
    \/ Call_augment_browser_headers

SpecHeaders == InitHeaders /\ [][NextHeaders]_vars

\* the extra headers given as "Key: Value"
KeyValueHeaders(extra_headers) ==
    { i \in 1..Len(extra_headers) : HasColon(extra_headers[i]) }

KeyOf(header) == str_strip(split_once(header).key)
ValueOf(header) == str_strip(split_once(header).value)

\* the header is the last one given with its key
LastOfItsKey(extra_headers, i) ==
    \A j \in KeyValueHeaders(extra_headers) :
        KeyOf(extra_headers[j]) = KeyOf(extra_headers[i]) => j <= i

AugmentKeepsAndIsIdempotent ==
    /\ hdr.pc \in {"augmented", "augmented twice"} =>
           \A k \in DOMAIN hdr.arg : k \in DOMAIN hdr.headers /\ hdr.headers[k] = hdr.arg[k]
    /\ hdr.pc = "augmented twice" => hdr.headers = hdr.arg

\* C27 (as stated): after build_headers every extra header given as
\* "Key: Value" is in the result under its key with its value (so it overrides
\* a default of the same key and an unknown key passes through);
\* augment_browser_headers never changes the value of a key already present
\* and applying it twice gives the same dict as applying it once.
C27_EveryExtraHeaderInResult ==
    /\ hdr.pc = "built" =>
           \A i \in KeyValueHeaders(hdr.extra_headers) :
               /\ KeyOf(hdr.extra_headers[i]) \in DOMAIN hdr.headers
               /\ hdr.headers[KeyOf(hdr.extra_headers[i])] = ValueOf(hdr.extra_headers[i])
    /\ AugmentKeepsAndIsIdempotent

\* C27 (amended): after build_headers every key given by an extra header
\* "Key: Value" is in the result with the value of the LAST extra header given
\* with that key (overriding a default of the same key; unknown keys pass
\* through); augment_browser_headers never changes the value of a key already
\* present and applying it twice gives the same dict as applying it once.
C27_LastExtraHeaderOfEachKeyInResult ==
    /\ hdr.pc = "built" =>
           \A i \in KeyValueHeaders(hdr.extra_headers) :
               /\ KeyOf(hdr.extra_headers[i]) \in DOMAIN hdr.headers
               /\ LastOfItsKey(hdr.extra_headers, i) =>
                      hdr.headers[KeyOf(hdr.extra_headers[i])] = ValueOf(hdr.extra_headers[i])
    /\ AugmentKeepsAndIsIdempotent

\* an extra header overrode the default Accept, an unknown key was passed, and
\* the dict went through augment_browser_headers twice
C27_Witness ==
    /\ hdr.pc = "augmented twice"
    /\ Len(hdr.extra_headers) = 2
    /\ hdr.headers[<<"Accept">>] = <<"text/html">>
    /\ <<"X-Token">> \in DOMAIN hdr.headers
    /\ <<"Sec-Fetch-Mode">> \in DOMAIN hdr.headers
(***************************************************************************)
(* download_segments_concurrent and concat_segments_to_ts on a directory    *)
(* that an earlier download left behind (main.py: the <stem>_segments       *)
(* directory is made with exist_ok=True and is not emptied)                 *)
(***************************************************************************)
\* bytes no segment of the current playlist holds
StaleBytes == <<9>>

\* the directory after a complete download of n segments
FullDirectory(n) == [k \in 1..n |-> File(SegmentPath(k - 1), SegmentBytes(k - 1))]

\* what an interrupted download of another playlist may have left: a segment
\* with an index of the current playlist, or one beyond its end; the list of
\* segments is never empty (resolve_segments_from_m3u8 raises instead)
StaleDirectories(n) ==
    { <<File(SegmentPath(0), StaleBytes)>>, <<File(SegmentPath(n), StaleBytes)>> }

InitRerun ==
    /\ content = <<>>
    /\ net = <<>>
    /\ ret = [f \in Functions |-> NotCalled]
    /\ am = AmIdle
    /\ ad = AdIdle
    /\ fa = FaIdle
    /\ tg = TgIdle
    /\ td = TdIdle
    /\ dl = DlIdle
    /\ hdr = HdrIdle
    /\ tm = TmIdle
    /\ \E n \in 1..MaxPoolSegments :
         \E d \in {FullDirectory(n)} \cup StaleDirectories(n) :
             pool = [PoolStart(n, MaxWorkers) EXCEPT !.dir = d, !.before = d]

SpecRerun == InitRerun /\ [][NextPool]_vars

\* the file of the directory at path, if there is one
FilesAt(dir, path) == { k \in 1..Len(dir) : dir[k].path = path }

\* C23: download_segments_concurrent run again on a directory that already holds
\* every segment file, the server answering with the same bytes, leaves every
\* indexed file with the same content at every moment, and assembling afterwards
\* gives the output that assembling the directory before the run gives.
C23_RerunIsIdempotent ==
    pool.pc # "idle" /\ pool.before = FullDirectory(pool.n) =>
        /\ \A i \in Tasks(pool) :
             /\ FilesAt(pool.dir, SegmentPath(i)) # {}
             /\ \A k \in FilesAt(pool.dir, SegmentPath(i)) :
                    pool.dir[k].data = SegmentBytes(i)
        /\ pool.pc = "assembled" =>
               pool.output = Some(concat_segments_to_ts(pool.before).val)

\* C23 witness: three segment files were there, all three were fetched and written
\* again, and the directory was assembled
C23_Witness ==
    /\ pool.pc = "assembled"
    /\ pool.n = 3
    /\ pool.before = FullDirectory(3)
    /\ \A i \in Tasks(pool) : pool.task[i].ok
    /\ pool.output = Some(SegmentBytes(0) \o SegmentBytes(1) \o SegmentBytes(2))

\* C29: the assembled output holds only bytes of segments fetched during the
\* current download, whatever an earlier interrupted download left in the
\* <stem>_segments directory.
C29_OutputHoldsOnlyFetchedSegments ==
    pool.pc = "assembled" =>
        \A b \in 1..Len(pool.output[1]) :
            \E i \in Succeeded(pool) :
                \E k \in 1..Len(SegmentBytes(i)) : SegmentBytes(i)[k] = pool.output[1][b]
(***************************************************************************)
(* download_template_mode: numbered segments fetched through an executor,  *)
(* the results handled by the calling thread in the order as_completed      *)
(* yields them                                                             *)
(***************************************************************************)
MaxStart == 1          \* largest --start
MaxEnd == 5            \* largest --end
MaxFirstMissing == 5   \* the server holds no segment from this index on, at the latest

max_consecutive_missing == 5

\* write_atomic(path, data): tmp.write_bytes(data); tmp.replace(path)
write_atomic(dir, path, data) ==
    ReplaceFile(WriteFile(dir, TmpOf(path), data), TmpOf(path), path)

\* a stop rule that also applies when --end is given
StopAppliesAlways(end) == TRUE

\* ... and end is None
StopApplies(end) == end = None

\* a first batch of one future more than the executor has workers
InitialBatchPlusOne(concurrency) == concurrency + 1

\* submit_next(concurrency), before the loop
InitialBatch(concurrency) == concurrency

\* template_url_generator: range(start, end + 1), or itertools.count(start)
HasNext(t) == t.end = None \/ t.next <= t.end[1]

\* submit_next(batch): the next indices of the generator become futures of the
\* executor, as many as batch unless the generator ends
RECURSIVE submit_next(_, _)
submit_next(t, batch) ==
    IF batch <= 0 \/ ~HasNext(t) THEN t
    ELSE submit_next(
             [t EXCEPT !.task = [i \in (DOMAIN t.task) \cup {t.next} |->
                                    IF i = t.next THEN "queued" ELSE t.task[i]],
                       !.futures = @ \cup {t.next},
                       !.submitted = Append(@, t.next),
                       !.next = @ + 1],
             batch - 1)

\* the futures whose task has neither ended nor been cancelled
Outstanding(t) == { i \in DOMAIN t.task : t.task[i] \in {"queued", "running"} }

\* the state at the entry of download_template_mode(template, ..., out_dir,
\* concurrency, start, end); missing_from is the index from which on the server
\* has no segment; task holds, for every index submitted, how far its task is,
\* and submitted the indices in the order of the calls of executor.submit
TemplateStart(concurrency, start, end, missing_from) ==
    [pc |-> "start", concurrency |-> concurrency, start |-> start, end |-> end,
     missing_from |-> missing_from,
     next |-> start,
     task |-> [i \in {} |-> "queued"],
     futures |-> {},
     submitted |-> <<>>,
     snapshot |-> {},
     results |-> <<>>,
     consecutive_missing |-> 0,
     dir |-> <<>>,
     stopped |-> FALSE]

\* out_dir.mkdir(...); ThreadPoolExecutor(max_workers=concurrency) raises ValueError
\* unless concurrency > 0; submit_next(concurrency)
TmStart ==
    /\ tm.pc = "start"
    /\ tm' = IF tm.concurrency <= 0 THEN [tm EXCEPT !.pc = "raised"]
             ELSE [submit_next(tm, InitialBatch(tm.concurrency)) EXCEPT !.pc = "while"]
    /\ UNCHANGED <<content, net, ret, td, dl, pool, hdr, am, ad, fa, tg>>

\* while futures: ... as_completed(list(futures.keys())); when no future is left:
\* finally: executor.shutdown(...); return results
TmWhile ==
    /\ tm.pc = "while"
    /\ tm' = IF tm.futures = {} THEN [tm EXCEPT !.pc = "returned"]
             ELSE [tm EXCEPT !.pc = "for", !.snapshot = tm.futures]
    /\ UNCHANGED <<content, net, ret, td, dl, pool, hdr, am, ad, fa, tg>>

\* a worker of the executor takes the task of index i, the first of the queue
TmWorkerStart(i) ==
    /\ tm.pc \in {"while", "for", "shutdown"}
    /\ tm.task[i] = "queued"
    /\ \A j \in DOMAIN tm.task : j < i => tm.task[j] # "queued"
    /\ Cardinality({ j \in DOMAIN tm.task : tm.task[j] = "running" }) < tm.concurrency
    /\ tm' = [tm EXCEPT !.task[i] = "running"]
    /\ UNCHANGED <<content, net, ret, td, dl, pool, hdr, am, ad, fa, tg>>

\* task: ok, data, code = try_download(...); (i, False, None) on 403/404, else
\* (i, ok, data); from missing_from on every answer is a failure
TmWorkerDone(i) ==
    /\ tm.pc \in {"while", "for", "shutdown", "joining"}
    /\ tm.task[i] = "running"
    /\ \E resp \in Responses :
         LET res == TdAfterRequest(TdStart(0), resp).result
             ok == res[1] /\ res[2] # None
         IN  /\ i >= tm.missing_from => ~ok
             /\ tm' = [tm EXCEPT !.task[i] = IF ok THEN "ok" ELSE "failed"]
    /\ UNCHANGED <<content, net, ret, td, dl, pool, hdr, am, ad, fa, tg>>

\* one pass of the for loop: as_completed yields a future of the snapshot whose
\* task has ended; idx = futures.pop(fut); the segment is written and counted, or
\* the miss is counted; then the run stops, or submit_next(1)
TmResult(i) ==
    /\ tm.pc = "for"
    /\ i \in tm.snapshot
    /\ tm.task[i] \in {"ok", "failed"}
    /\ LET popped == [tm EXCEPT !.futures = @ \ {i}, !.snapshot = @ \ {i}]
           counted ==
               IF tm.task[i] = "ok"
               THEN [popped EXCEPT
                       !.dir = write_atomic(@, SegmentPath(i), SegmentBytes(i)),
                       !.results = Append(@, SegmentPath(i)),
                       !.consecutive_missing = 0]
               ELSE [popped EXCEPT !.consecutive_missing = @ + 1]
           refilled == submit_next(counted, 1)
       IN  tm' = IF counted.consecutive_missing >= max_consecutive_missing
                    /\ StopApplies(tm.end)
                 THEN [counted EXCEPT !.pc = "shutdown", !.stopped = TRUE]
                 ELSE [refilled EXCEPT
                         !.pc = IF refilled.snapshot = {} THEN "while" ELSE "for"]
    /\ UNCHANGED <<content, net, ret, td, dl, pool, hdr, am, ad, fa, tg>>

\* executor.shutdown(cancel_futures=True): the tasks still in the queue are cancelled
TmCancel ==
    /\ tm.pc = "shutdown"
    /\ tm' = [tm EXCEPT !.pc = "joining",
                        !.task = [i \in DOMAIN tm.task |->
                                     IF tm.task[i] = "queued" THEN "cancelled"
                                     ELSE tm.task[i]]]
    /\ UNCHANGED <<content, net, ret, td, dl, pool, hdr, am, ad, fa, tg>>

\* ... and the running tasks are waited for; return results
TmJoin ==
    /\ tm.pc = "joining"
    /\ \A i \in DOMAIN tm.task : tm.task[i] # "running"
    /\ tm' = [tm EXCEPT !.pc = "returned"]
    /\ UNCHANGED <<content, net, ret, td, dl, pool, hdr, am, ad, fa, tg>>

InitTemplate ==
    /\ content = <<>>
    /\ net = <<>>
    /\ ret = [f \in Functions |-> NotCalled]
    /\ am = AmIdle
    /\ ad = AdIdle
    /\ fa = FaIdle
    /\ tg = TgIdle
    /\ td = TdIdle
    /\ dl = DlIdle
    /\ pool = PoolIdle
    /\ hdr = HdrIdle
    /\ \E concurrency \in 0..MaxWorkers, start \in 0..MaxStart,
          end \in {None} \cup { Some(e) : e \in 0..MaxEnd },
          missing_from \in 0..MaxFirstMissing :
         tm = TemplateStart(concurrency, start, end, missing_from)

TmMain ==
    \/ TmStart
    \/ TmWhile
    \/ \E i \in tm.snapshot : TmResult(i)
    \/ TmCancel
    \/ TmJoin

TmWorkers ==
    \/ \E i \in DOMAIN tm.task : TmWorkerStart(i)
    \/ \E i \in DOMAIN tm.task : TmWorkerDone(i)

NextTemplate ==
    \/ TmStart
    \/ TmWhile
    \/ \E i \in DOMAIN tm.task : TmWorkerStart(i)
    \/ \E i \in DOMAIN tm.task : TmWorkerDone(i)
    \/ \E i \in tm.snapshot : TmResult(i)
    \/ TmCancel
    \/ TmJoin

SpecTemplate == InitTemplate /\ [][NextTemplate]_vars

\* the runs without --end
InitTemplateNoEnd == InitTemplate /\ tm.end = None

\* the calling thread runs when it can, and so do the workers: every fetch ends
\* (try_download has a timeout and a bounded number of retries)
FairSpecTemplate ==
    /\ InitTemplateNoEnd
    /\ [][NextTemplate]_vars
    /\ WF_vars(TmMain)
    /\ WF_vars(TmWorkers)
\* the indices whose fetch succeeded
FetchedOk(t) == { i \in DOMAIN t.task : t.task[i] = "ok" }

\* the number of calls of executor.submit for index i
TimesSubmitted(t, i) == Cardinality({ k \in 1..Len(t.submitted) : t.submitted[k] = i })

\* C25: with --end (and a concurrency of at least 1) download_template_mode
\* attempts every index from start to end inclusive exactly once, and no other,
\* however many fetches fail and in whatever order, and it returns exactly the
\* paths of the indices whose fetch succeeded.
C25_EveryIndexUpToEndAttemptedOnce ==
    tm.pc # "idle" /\ tm.end # None =>
        /\ \A k \in 1..Len(tm.submitted) :
               /\ tm.submitted[k] \in tm.start..tm.end[1]
               /\ TimesSubmitted(tm, tm.submitted[k]) = 1
        /\ tm.pc = "returned" =>
               /\ ~tm.stopped
               /\ \A i \in tm.start..tm.end[1] :
                      /\ TimesSubmitted(tm, i) = 1
                      /\ tm.task[i] \in {"ok", "failed"}
               /\ { tm.results[k] : k \in 1..Len(tm.results) }
                      = { SegmentPath(i) : i \in FetchedOk(tm) }
               /\ Len(tm.results) = Cardinality(FetchedOk(tm))

\* C25 witness: indices 0..5 with two workers; segment 0 was written, then the
\* five fetches of 1..5 all failed, and the call returned only after index 5 was
\* attempted
C25_Witness ==
    /\ tm.pc = "returned"
    /\ tm.start = 0 /\ tm.end = Some(5) /\ tm.concurrency = 2
    /\ tm.task[0] = "ok"
    /\ \A i \in 1..5 : tm.task[i] = "failed"
    /\ tm.results = <<SegmentPath(0)>>
    /\ tm.consecutive_missing = 5

\* C26: without --end download_template_mode returns only after five segments
\* with consecutive indices all failed, whatever the interleaving of the
\* fetches, and every segment whose fetch succeeded is in the output directory
\* and among the returned paths.
C26_StopsOnlyAfterFiveConsecutiveMissing ==
    tm.pc = "returned" /\ tm.end = None =>
        /\ \E j \in DOMAIN tm.task :
               \A x \in j..(j + max_consecutive_missing - 1) :
                   x \in DOMAIN tm.task /\ tm.task[x] = "failed"
        /\ \A i \in FetchedOk(tm) :
               /\ \E k \in 1..Len(tm.results) : tm.results[k] = SegmentPath(i)
               /\ FilesAt(tm.dir, SegmentPath(i)) # {}

\* C30: without --end (and with a concurrency of at least 1), the server holding
\* no segment from some index on, download_template_mode eventually returns; and
\* at every moment at most `concurrency` fetches are queued or running.
C30_ReturnsAndBoundsOutstanding ==
    /\ [](tm.pc # "idle" => Cardinality(Outstanding(tm)) <= tm.concurrency)
    /\ (tm.pc = "start" /\ tm.end = None /\ tm.concurrency >= 1) ~> (tm.pc = "returned")

\* C30 witness: two workers, segments 0..2 on the server; the call returned by
\* its stop rule after segment 2 was written, with a fetch that had been
\* outstanding at the stop
C30_Witness ==
    /\ tm.pc = "returned"
    /\ tm.end = None /\ tm.concurrency = 2 /\ tm.missing_from = 3
    /\ tm.stopped
    /\ tm.task[2] = "ok"
    /\ \E k \in 1..Len(tm.results) : tm.results[k] = SegmentPath(2)
    /\ tm.futures # {}
\* C31: when src/download.py main has ended, on whatever path, after it made
\* the temporary segments directory, the directory is gone unless --keep-temp
\* was given.
C31_TempDirRemovedOnEveryExit ==
    dl.pc = "done" /\ dl.entry = "download.main" /\ ~dl.keep_temp =>
        dl.temp_dir # "present"
(***************************************************************************)
(* src/main.py, anime mode: the loop that selects the next episode,        *)
(* downloads it with retries, runs the Telegram uploader and advances the  *)
(* progress kept in download.json                                          *)
(*                                                                         *)
(* The catalog is the list of complete anime of data.json, each given by   *)
(* its number of episodes; an anime is named by its index in that list.    *)
(* files is the set of <<anime, episode>> for which is_episode_downloaded  *)
(* finds a file under downloads/.                                          *)
(***************************************************************************)
MaxAnime == 2          \* complete anime in data.json
MaxEpisodes == 2       \* episodes of one anime

max_retries == 3

get_total_episodes(catalog, index) == catalog[index + 1]

is_episode_downloaded(files, index, episode_num) == <<index, episode_num>> \in files

\* if current_index >= len(complete_anime): current_index = 0; current_episode = 1
StartOver(catalog, at) ==
    IF at.current_index >= Len(catalog)
    THEN [current_index |-> 0, current_episode |-> 1]
    ELSE at

\* current_index += 1; current_episode = 1, and start over after the last anime
NextAnime(catalog, at) ==
    StartOver(catalog, [current_index |-> at.current_index + 1, current_episode |-> 1])

\* if current_episode > total_episodes: move to the next anime
BeyondTotal(catalog, at) ==
    IF at.current_episode > get_total_episodes(catalog, at.current_index)
    THEN NextAnime(catalog, at)
    ELSE at

\* if self.is_episode_downloaded(anime_title, current_episode): the next episode
\* is taken, without a second look at the files
SkipDownloaded(catalog, files, at) ==
    IF is_episode_downloaded(files, at.current_index, at.current_episode)
    THEN BeyondTotal(catalog, [at EXCEPT !.current_episode = @ + 1])
    ELSE at

NoEpisode == [anime |-> None, episode_num |-> None, progress_info |-> None]

\* get_next_episode_to_download(): (anime, current_episode, (current_index,
\* current_episode)), or (None, None, None) without a complete anime
get_next_episode_to_download(catalog, progress, files) ==
    IF catalog = <<>> THEN NoEpisode
    ELSE LET at == SkipDownloaded(catalog, files,
                       BeyondTotal(catalog,
                           StartOver(catalog,
                               [current_index |-> progress.current_anime_index,
                                current_episode |-> progress.current_episode])))
         IN  [anime |-> Some(at.current_index),
              episode_num |-> Some(at.current_episode),
              progress_info |-> Some(<<at.current_index, at.current_episode>>)]

\* the <<anime, episode>> pairs of the catalog
Pairs(catalog) ==
    { <<i, e>> \in (0..(Len(catalog) - 1)) \X (1..MaxEpisodes) : e <= catalog[i + 1] }

\* the state when the loop is entered: download_progress as loaded (the
\* defaults of a first run), the files found under downloads/
AnimeModeStart(catalog, files) ==
    [pc |-> "select", catalog |-> catalog, files |-> files, initial_files |-> files,
     progress |-> [current_anime_index |-> 0, current_episode |-> 1],
     saved |-> [current_anime_index |-> 0, current_episode |-> 1],
     completed_anime |-> <<>>,
     anime |-> None, episode_num |-> None, progress_info |-> None,
     attempt |-> 0, success |-> FALSE,
     attempts |-> 0, uploader_runs |-> 0, downloaded_ok |-> {},
     previous |-> None]

\* anime, episode_num, progress_info = downloader.get_next_episode_to_download();
\* if not anime: break.  attempts and uploader_runs count the calls made for
\* the selected episode, previous is the episode of the last pass and its outcome
AmSelect ==
    /\ am.pc = "select"
    /\ LET next == get_next_episode_to_download(am.catalog, am.progress, am.files)
       IN  am' = IF next.anime = None THEN [am EXCEPT !.pc = "done"]
                 ELSE [am EXCEPT !.pc = "attempt",
                                 !.anime = next.anime,
                                 !.episode_num = next.episode_num,
                                 !.progress_info = next.progress_info,
                                 !.attempt = 1, !.success = FALSE,
                                 !.attempts = 0, !.uploader_runs = 0,
                                 !.previous =
                                     IF am.anime = None THEN None
                                     ELSE Some([anime |-> am.anime[1],
                                                episode_num |-> am.episode_num[1],
                                                success |-> am.success])]
    /\ UNCHANGED <<content, net, ret, td, dl, pool, hdr, tm, ad, fa, tg>>

\* for attempt in range(1, max_retries + 1):
\*     success = download_single_episode(anime, episode_num, args); if success: break
AmAttempt ==
    /\ am.pc = "attempt"
    /\ \E ok \in BOOLEAN :
         LET pair == <<am.anime[1], am.episode_num[1]>>
             tried == [am EXCEPT !.attempts = @ + 1, !.success = ok]
         IN  am' = IF ok
                   THEN [tried EXCEPT !.pc = "upload",
                                      !.files = @ \cup {pair},
                                      !.downloaded_ok = @ \cup {pair}]
                   ELSE IF am.attempt < max_retries
                   THEN [tried EXCEPT !.attempt = @ + 1]
                   ELSE [tried EXCEPT !.pc = "advance"]
    /\ UNCHANGED <<content, net, ret, td, dl, pool, hdr, tm, ad, fa, tg>>

\* if success: run_telegram_uploader(): the uploader deletes the video files it
\* has sent, which may be any of the files under downloads/
AmUpload ==
    /\ am.pc = "upload"
    /\ \E kept \in SUBSET am.files :
         am' = [am EXCEPT !.pc = "advance", !.files = kept, !.uploader_runs = @ + 1]
    /\ UNCHANGED <<content, net, ret, td, dl, pool, hdr, tm, ad, fa, tg>>

\* a pointer left on the episode that was selected
Stay(a) ==
    [current_anime_index |-> a.progress_info[1][1],
     current_episode |-> a.progress_info[1][2]]

\* the progress after the episode: current_episode + 1, or the next anime index
\* after the last episode
Advanced(a) ==
    LET current_index == a.progress_info[1][1]
        current_episode == a.progress_info[1][2]
    IN  IF current_episode >= get_total_episodes(a.catalog, a.anime[1])
        THEN [current_anime_index |-> current_index + 1, current_episode |-> 1]
        ELSE [current_anime_index |-> current_index, current_episode |-> current_episode + 1]

\* completed_anime after a successful last episode: one record per anime_number
Completed(a) ==
    IF a.success
       /\ a.progress_info[1][2] >= get_total_episodes(a.catalog, a.anime[1])
       /\ ~\E k \in 1..Len(a.completed_anime) : a.completed_anime[k] = a.anime[1]
    THEN Append(a.completed_anime, a.anime[1])
    ELSE a.completed_anime

\* the progress is advanced (both branches), a finished series is recorded, and
\* downloader.save_download_progress() writes download.json
AmAdvance ==
    /\ am.pc = "advance"
    /\ am' = [am EXCEPT !.pc = "select",
                        !.progress = Advanced(am),
                        !.saved = Advanced(am),
                        !.completed_anime = Completed(am)]
    /\ UNCHANGED <<content, net, ret, td, dl, pool, hdr, tm, ad, fa, tg>>

Catalogs == UNION { [1..n -> 1..MaxEpisodes] : n \in 0..MaxAnime }

InitAnimeMode ==
    /\ content = <<>>
    /\ net = <<>>
    /\ ret = [f \in Functions |-> NotCalled]
    /\ td = TdIdle
    /\ dl = DlIdle
    /\ pool = PoolIdle
    /\ hdr = HdrIdle
    /\ tm = TmIdle
    /\ ad = AdIdle
    /\ fa = FaIdle
    /\ tg = TgIdle
    /\ \E catalog \in Catalogs :
         \E files \in SUBSET Pairs(catalog) :
             am = AnimeModeStart(catalog, files)

NextAnimeMode ==
    \/ AmSelect
    \/ AmAttempt
    \/ AmUpload
    \/ AmAdvance

SpecAnimeMode == InitAnimeMode /\ [][NextAnimeMode]_vars
\* an episode has just been selected and no attempt was made yet
JustSelected == am.pc = "attempt" /\ am.attempts = 0

\* C33: get_next_episode_to_download never returns an episode that
\* is_episode_downloaded reports as downloaded, as long as some episode of a
\* complete anime is not downloaded.
C33_NextEpisodeIsNotDownloaded ==
    JustSelected /\ Pairs(am.catalog) \ am.files # {} =>
        ~is_episode_downloaded(am.files, am.anime[1], am.episode_num[1])

\* the episodes that were on disk when the loop started or that a call of
\* download_single_episode downloaded since
EverDownloaded == am.initial_files \cup am.downloaded_ok

\* C34: an anime is in completed_anime only if every episode 1..total of it was
\* downloaded successfully, and no two records of completed_anime have the same
\* anime_number.
C34_CompletedMeansEveryEpisodeDownloaded ==
    am.pc # "idle" =>
        /\ \A k \in 1..Len(am.completed_anime) :
               \A e \in 1..get_total_episodes(am.catalog, am.completed_anime[k]) :
                   <<am.completed_anime[k], e>> \in EverDownloaded
        /\ \A k, l \in 1..Len(am.completed_anime) :
               am.completed_anime[k] = am.completed_anime[l] => k = l

\* the selected episode failed max_retries times and the pointer was saved
FailedAndSaved(a) ==
    /\ a.pc = "select" /\ a.anime # None /\ ~a.success

AttemptsAndUpload ==
    /\ am.attempts <= max_retries
    /\ am.pc = "attempt" => ~am.success
    /\ am.success => am.pc \in {"upload", "advance", "select"}
    /\ am.uploader_runs > 0 => am.success
    /\ am.uploader_runs <= 1
    /\ FailedAndSaved(am) =>
           /\ am.attempts = max_retries
           /\ am.saved = Advanced(am)
           /\ <<am.saved.current_anime_index, am.saved.current_episode>>
                  # am.progress_info[1]

\* C32 (as stated): each selected episode is attempted at most 3 times and not
\* again after a success; the uploader runs only after a success; after 3
\* failures the saved pointer is past the episode, and the next pass selects a
\* different (anime, episode) pair whenever the catalog has more than one pair.
C32_RetriesThenMovesToDifferentPair ==
    am.pc \notin {"idle", "done"} =>
        /\ AttemptsAndUpload
        /\ (JustSelected /\ am.previous # None /\ Cardinality(Pairs(am.catalog)) > 1) =>
               (~am.previous[1].success =>
                    <<am.anime[1], am.episode_num[1]>>
                        # <<am.previous[1].anime, am.previous[1].episode_num>>)
\* the pair that follows the previous one in the order of the selection
FollowsPrevious ==
    LET at == StartOver(am.catalog,
                  [current_index |-> am.saved.current_anime_index,
                   current_episode |-> am.saved.current_episode])
    IN  <<at.current_index, at.current_episode>>

\* C32 (amended): each selected episode is attempted at most 3 times and not
\* again after a success; the uploader runs only after a success; after 3
\* failures the saved pointer is past the episode, and the next pass selects a
\* different pair whenever the catalog has more than two pairs, or has two and
\* the other one is not reported as downloaded.
C32_RetriesThenMovesPastEpisode ==
    am.pc \notin {"idle", "done"} =>
        /\ AttemptsAndUpload
        /\ (/\ JustSelected /\ am.previous # None
            /\ ~am.previous[1].success
            /\ \/ Cardinality(Pairs(am.catalog)) > 2
               \/ /\ Cardinality(Pairs(am.catalog)) = 2
                  /\ FollowsPrevious \notin am.files) =>
               <<am.anime[1], am.episode_num[1]>>
                   # <<am.previous[1].anime, am.previous[1].episode_num>>

\* C32 witness: the first episode of a two-episode anime failed three times, and
\* the next pass selected its second episode; an earlier pass had a success
\* followed by one run of the uploader
C32_Witness ==
    /\ JustSelected
    /\ am.catalog = <<1, 2>>
    /\ am.previous = Some([anime |-> 1, episode_num |-> 1, success |-> FALSE])
    /\ am.anime = Some(1) /\ am.episode_num = Some(2)
    /\ am.downloaded_ok = {<<0, 1>>}
(***************************************************************************)
(* src/src/anime_downloader.py and anime_downloader_test.py: run_downloader *)
(* downloads every episode of every complete anime not yet in              *)
(* downloaded_anime, keeps its progress in memory and writes download.json *)
(*                                                                         *)
(* An anime is named by its position in data.json (its title); files is    *)
(* the set of <<anime, episode>> whose .mp4 or .ts file exists.            *)
(***************************************************************************)
MaxDataAnime == 6      \* complete anime in data.json
MaxSeriesEpisodes == 3 \* episodes of an anime of data.json

MaxRuns == 2           \* runs of the program

TestLimit == 5
TestMaxEpisodes == 2

\* is_episode_downloaded(anime_title, episode_num) of anime_downloader.py: one of
\* the two files <title>_EpNN.mp4 / .ts exists
episode_file_exists(files, anime, episode_num) == <<anime, episode_num>> \in files

\* get_complete_anime_list(limit): the complete anime whose title is not in
\* downloaded_anime, in the order of data.json, cut at limit when one is given
RECURSIVE complete_from(_, _, _, _)
complete_from(data, downloaded_anime, limit, k) ==
    IF k > Len(data) THEN <<>>
    ELSE IF k \in downloaded_anime THEN complete_from(data, downloaded_anime, limit, k + 1)
    ELSE IF limit = Some(1) THEN <<k>>
    ELSE <<k>> \o complete_from(data, downloaded_anime,
                      IF limit = None THEN None ELSE Some(limit[1] - 1), k + 1)

get_complete_anime_list(data, downloaded_anime, limit) ==
    complete_from(data, downloaded_anime, limit, 1)

\* update_download_progress(anime_title, episode_num, success), in memory
update_download_progress(progress, anime, episode_num, success) ==
    IF success
    THEN [progress EXCEPT !.downloaded_anime = @ \cup {anime}]
    ELSE [progress EXCEPT !.failed_downloads = @ \cup {<<anime, episode_num>>}]

NoProgress == [downloaded_anime |-> {}, failed_downloads |-> {}]

\* {"success": False, "reason": "Invalid anime data"}
InvalidResult == [success |-> FALSE, reason |-> "Invalid anime data"]

\* the state at the entry of run_downloader(test_mode); calls lists the calls of
\* download_episode with whether the file was there, successes the episodes
\* downloaded by the run
DownloaderStart(data, files, test_mode) ==
    [pc |-> "start", data |-> data, files |-> files, test_mode |-> test_mode,
     progress |-> NoProgress, saved |-> NoProgress,
     complete_anime |-> <<>>, i |-> 0,
     episode_num |-> 0, total_episodes |-> 0,
     downloaded_episodes |-> <<>>, failed_episodes |-> <<>>,
     result |-> None,
     calls |-> {}, successes |-> {}, series |-> 0, runs |-> 1]

\* complete_anime = self.get_complete_anime_list(limit); return when it is empty
\* or the user does not confirm
AdStart ==
    /\ ad.pc = "start"
    /\ \E confirm \in BOOLEAN :
         LET list == get_complete_anime_list(ad.data, ad.progress.downloaded_anime,
                         IF ad.test_mode THEN Some(TestLimit) ELSE None)
         IN  ad' = IF list = <<>> \/ ~confirm THEN [ad EXCEPT !.pc = "returned"]
                   ELSE [ad EXCEPT !.pc = "series", !.complete_anime = list, !.i = 1]
    /\ UNCHANGED <<content, net, ret, td, dl, pool, hdr, tm, am, fa, tg>>

\* download_anime_series(anime, max_episodes) up to the episode loop
AdSeries ==
    /\ ad.pc = "series"
    /\ LET anime == ad.data[ad.complete_anime[ad.i]]
           max_episodes == IF ad.test_mode THEN TestMaxEpisodes ELSE 0
           total == IF max_episodes # 0 /\ max_episodes < anime.total
                    THEN max_episodes ELSE anime.total
       IN  ad' = IF ~anime.url \/ anime.total = 0
                 THEN [ad EXCEPT !.pc = "result", !.result = Some(InvalidResult),
                                 !.series = @ + 1]
                 ELSE [ad EXCEPT !.pc = "episode", !.episode_num = 1,
                                 !.total_episodes = total,
                                 !.downloaded_episodes = <<>>,
                                 !.failed_episodes = <<>>,
                                 !.series = @ + 1]
    /\ UNCHANGED <<content, net, ret, td, dl, pool, hdr, tm, am, fa, tg>>

\* one pass of for episode_num in range(1, total_episodes + 1), and the return
\* after the last one
AdEpisode ==
    /\ ad.pc = "episode"
    /\ IF ad.episode_num > ad.total_episodes
       THEN ad' = [ad EXCEPT !.pc = "result",
                             !.result = Some([success |-> ad.failed_episodes = <<>>,
                                              downloaded_episodes |-> ad.downloaded_episodes,
                                              failed_episodes |-> ad.failed_episodes,
                                              total_episodes |-> ad.total_episodes])]
       ELSE LET anime == ad.complete_anime[ad.i]
                e == ad.episode_num
            IN  IF episode_file_exists(ad.files, anime, e)
                THEN ad' = [ad EXCEPT !.downloaded_episodes = Append(@, e),
                                      !.episode_num = e + 1]
                ELSE \E ok \in BOOLEAN :
                       ad' = [ad EXCEPT
                                !.calls = @ \cup {<<anime, e, episode_file_exists(ad.files, anime, e)>>},
                                !.files = IF ok THEN @ \cup {<<anime, e>>} ELSE @,
                                !.successes = IF ok THEN @ \cup {<<anime, e>>} ELSE @,
                                !.downloaded_episodes = IF ok THEN Append(@, e) ELSE @,
                                !.failed_episodes = IF ok THEN @ ELSE Append(@, e),
                                !.progress = update_download_progress(@, anime, e, ok),
                                !.episode_num = e + 1]
    /\ UNCHANGED <<content, net, ret, td, dl, pool, hdr, tm, am, fa, tg>>

\* run_downloader reads the result: result["success"], and for a failure
\* result['downloaded_episodes'], a KeyError when the result has no such key;
\* then the next anime, or after the last one save_download_progress()
AdResult ==
    /\ ad.pc = "result"
    /\ ad' = IF ~ad.result[1].success /\ "downloaded_episodes" \notin DOMAIN ad.result[1]
             THEN [ad EXCEPT !.pc = "raised"]
             ELSE IF ad.i < Len(ad.complete_anime)
             THEN [ad EXCEPT !.pc = "series", !.i = @ + 1]
             ELSE [ad EXCEPT !.pc = "returned", !.saved = ad.progress]
    /\ UNCHANGED <<content, net, ret, td, dl, pool, hdr, tm, am, fa, tg>>

\* the process is interrupted during the run (Ctrl-C, kill, power)
AdInterrupt ==
    /\ ad.pc \in {"series", "episode", "result"}
    /\ ad' = [ad EXCEPT !.pc = "interrupted"]
    /\ UNCHANGED <<content, net, ret, td, dl, pool, hdr, tm, am, fa, tg>>

\* the next run of the program: AnimeDownloader() loads download.json
AdNextRun ==
    /\ ad.pc \in {"returned", "raised", "interrupted"}
    /\ ad.runs < MaxRuns
    /\ ad' = [DownloaderStart(ad.data, ad.files, ad.test_mode) EXCEPT
                !.progress = ad.saved, !.saved = ad.saved,
                !.calls = ad.calls, !.successes = ad.successes,
                !.runs = ad.runs + 1]
    /\ UNCHANGED <<content, net, ret, td, dl, pool, hdr, tm, am, fa, tg>>

\* data.json: anime of the same length, all with a URL or one of them without
DataLists ==
    UNION { { [k \in 1..n |-> [total |-> t, url |-> k # bad]] :
                t \in 1..MaxSeriesEpisodes, bad \in 0..n } : n \in 0..MaxDataAnime }

\* the files of an earlier run: none, or the first episode of the first anime
EarlierFiles == { {}, {<<1, 1>>} }

InitDownloader ==
    /\ content = <<>>
    /\ net = <<>>
    /\ ret = [f \in Functions |-> NotCalled]
    /\ td = TdIdle
    /\ dl = DlIdle
    /\ pool = PoolIdle
    /\ hdr = HdrIdle
    /\ tm = TmIdle
    /\ am = AmIdle
    /\ fa = FaIdle
    /\ tg = TgIdle
    /\ \E data \in DataLists, files \in EarlierFiles, test_mode \in BOOLEAN :
         /\ ~test_mode => Len(data) <= MaxAnime
         /\ ad = DownloaderStart(data, files, test_mode)

NextDownloader ==
    \/ AdStart
    \/ AdSeries
    \/ AdEpisode
    \/ AdResult
    \/ AdInterrupt
    \/ AdNextRun

SpecDownloader == InitDownloader /\ [][NextDownloader]_vars

\* C35: every episode downloaded successfully by a run is recorded in
\* download.json before the next episode is started, so that an interrupted
\* run has lost no recorded success
C35_SuccessSavedBeforeNextEpisode ==
    ad.pc \in {"episode", "series", "result", "interrupted"} =>
        \A p \in ad.successes : p[1] \in ad.saved.downloaded_anime

\* C36: when a run has returned, a title in downloaded_anime has all its
\* episodes 1..total downloaded, and an anime with a failed episode still
\* missing is not in downloaded_anime, so that get_complete_anime_list offers
\* it again
C36_DownloadedAnimeHasEveryEpisode ==
    ad.pc = "returned" =>
        /\ \A a \in ad.saved.downloaded_anime :
             \A e \in 1..ad.data[a].total : <<a, e>> \in ad.files
        /\ \A f \in ad.saved.failed_downloads :
             f \notin ad.files => f[1] \notin ad.saved.downloaded_anime

Range(seq) == { seq[k] : k \in DOMAIN seq }

\* the result of download_anime_series partitions the episodes of the series
\* it was called for
Partitions(result, total) ==
    /\ {"downloaded_episodes", "failed_episodes", "success"} \subseteq DOMAIN result
    /\ Range(result.downloaded_episodes) \cap Range(result.failed_episodes) = {}
    /\ Range(result.downloaded_episodes) \cup Range(result.failed_episodes) = 1..total
    /\ result.success <=> result.failed_episodes = <<>>

\* the episodes download_anime_series is to go through for anime a
EpisodesOf(a) ==
    IF ad.test_mode /\ ad.data[a].total > TestMaxEpisodes
    THEN TestMaxEpisodes ELSE ad.data[a].total

\* C37: download_episode is never called for an episode whose file exists, the
\* result of download_anime_series partitions the episodes, and test mode
\* attempts at most 5 series and only the first 2 episodes of each
C37_SkipsExistingAndPartitions ==
    /\ \A c \in ad.calls : ~c[3]
    /\ ad.pc = "result" =>
         Partitions(ad.result[1], EpisodesOf(ad.complete_anime[ad.i]))
    /\ ad.test_mode =>
         /\ ad.series <= TestLimit
         /\ \A c \in ad.calls : c[2] <= TestMaxEpisodes

\* the same for the anime that have a URL and at least one episode
C37_ValidAnimePartitions ==
    /\ \A c \in ad.calls : ~c[3]
    /\ ad.pc = "result" /\ ad.result[1] # InvalidResult =>
         Partitions(ad.result[1], EpisodesOf(ad.complete_anime[ad.i]))
    /\ ad.test_mode =>
         /\ ad.series <= TestLimit
         /\ \A c \in ad.calls : c[2] <= TestMaxEpisodes

(***************************************************************************)
(* src/src/anime_fetcher.py: fetch_all_anime pages through the site and    *)
(* numbers the entries it could process                                    *)
(*                                                                         *)
(* An entry of a page is "ok" or "bad"; a bad one makes the body of the    *)
(* loop of process_anime_data raise (its "url" is null, or it is not an    *)
(* object) and is skipped.  An anime of the result is its anime_number.    *)
(***************************************************************************)
MaxPages == 3        \* pages the site has
MaxPageEntries == 3  \* entries of a page

\* process_anime_data(anime_list, start_count): idx counts the entries of
\* anime_list, the skipped ones included
RECURSIVE process_from(_, _, _)
process_from(anime_list, start_count, idx) ==
    IF idx >= Len(anime_list) THEN <<>>
    ELSE (IF anime_list[idx + 1] = "ok" THEN <<start_count + idx + 1>> ELSE <<>>)
         \o process_from(anime_list, start_count, idx + 1)

process_anime_data(anime_list, start_count) == process_from(anime_list, start_count, 0)

\* fetch_anime_page(page_num): the list of the page, [] when there is none
fetch_anime_page(pages, page_num) ==
    IF page_num + 1 \in DOMAIN pages THEN pages[page_num + 1] ELSE <<>>

\* the state at the while of fetch_all_anime(start_page, max_pages)
FetcherStart(pages, start_page, max_pages) ==
    [pc |-> "while", pages |-> pages, max_pages |-> max_pages,
     all_anime |-> <<>>, page_num |-> start_page, total_anime_count |-> 0,
     anime_data |-> <<>>]

\* while page_num <= max_pages: anime_data = self.fetch_anime_page(page_num);
\* if not anime_data: break
FaFetch ==
    /\ fa.pc = "while"
    /\ LET anime_data == fetch_anime_page(fa.pages, fa.page_num)
       IN  fa' = IF fa.page_num > fa.max_pages \/ anime_data = <<>>
                 THEN [fa EXCEPT !.pc = "done"]
                 ELSE [fa EXCEPT !.pc = "process", !.anime_data = anime_data]
    /\ UNCHANGED <<content, net, ret, td, dl, pool, hdr, tm, am, ad, tg>>

\* the rest of the body of the while
FaProcess ==
    /\ fa.pc = "process"
    /\ LET processed_data == process_anime_data(fa.anime_data, fa.total_anime_count)
       IN  fa' = [fa EXCEPT !.pc = "while",
                            !.all_anime = @ \o processed_data,
                            !.total_anime_count = @ + Len(processed_data),
                            !.page_num = @ + 1]
    /\ UNCHANGED <<content, net, ret, td, dl, pool, hdr, tm, am, ad, tg>>

PageLists ==
    UNION { [1..n -> {"ok", "bad"}] : n \in 1..MaxPageEntries }

InitFetcher ==
    /\ content = <<>>
    /\ net = <<>>
    /\ ret = [f \in Functions |-> NotCalled]
    /\ td = TdIdle
    /\ dl = DlIdle
    /\ pool = PoolIdle
    /\ hdr = HdrIdle
    /\ tm = TmIdle
    /\ am = AmIdle
    /\ ad = AdIdle
    /\ tg = TgIdle
    /\ \E n \in 0..MaxPages, max_pages \in {1, MaxPages} :
         \E pages \in [1..n -> PageLists] :
           fa = FetcherStart(pages, 0, max_pages)

NextFetcher ==
    \/ FaFetch
    \/ FaProcess

SpecFetcher == InitFetcher /\ [][NextFetcher]_vars

\* C38: the anime_number values of the list fetch_all_anime returns are
\* distinct and are 1..N without a gap, whatever entries were skipped
C38_AnimeNumbersGlobal ==
    fa.pc = "done" =>
        /\ \A j, k \in DOMAIN fa.all_anime : j # k => fa.all_anime[j] # fa.all_anime[k]
        /\ Range(fa.all_anime) = 1..Len(fa.all_anime)

\* the same when no entry of the pages fetched was skipped
C38_AnimeNumbersGlobalWithoutSkips ==
    fa.pc = "done" /\ (\A p \in DOMAIN fa.pages : \A k \in DOMAIN fa.pages[p] : fa.pages[p][k] = "ok") =>
        /\ \A j, k \in DOMAIN fa.all_anime : j # k => fa.all_anime[j] # fa.all_anime[k]
        /\ Range(fa.all_anime) = 1..Len(fa.all_anime)

(***************************************************************************)
(* src/src/telegram.py: main sends every video file of downloads/ to the   *)
(* target chat and deletes the files it has sent                           *)
(*                                                                         *)
(* A video file is its position in video_files.  parallel and fallback     *)
(* count the calls of upload_file and of the standard send_file for each   *)
(* file, sent is the set of files for which send_file returned.            *)
(***************************************************************************)
MaxVideoFiles == 3   \* video files in downloads/

upload_max_retries == 3

\* the state at the for loop over video_files
TelegramStart(n) ==
    [pc |-> "for", video_files |-> n, video_file |-> 1,
     attempt |-> 0, input_file |-> FALSE,
     sent_count |-> 0, failed_count |-> 0,
     on_disk |-> 1..n, sent |-> {},
     parallel |-> [f \in 1..n |-> 0], fallback |-> [f \in 1..n |-> 0]]

\* the next file, without counting the failure
SendFailedNotCounted(t) ==
    [t EXCEPT !.pc = "for", !.video_file = @ + 1]

\* except Exception: failed_count += 1, then the next file
SendFailed(t) ==
    [t EXCEPT !.pc = "for", !.failed_count = @ + 1, !.video_file = @ + 1]

\* after send_file has returned: video_file.unlink() (its failure is only
\* printed), sent_count += 1, then the next file
Sent(t, unlinked) ==
    [t EXCEPT !.pc = "for", !.sent_count = @ + 1, !.video_file = @ + 1,
              !.sent = @ \cup {t.video_file},
              !.on_disk = IF unlinked THEN @ \ {t.video_file} ELSE @]

\* for video_file in video_files: video_file.stat(), outside the try; then
\* attempt = 0, input_file = None
TgFile ==
    /\ tg.pc = "for"
    /\ IF tg.video_file > tg.video_files
       THEN tg' = [tg EXCEPT !.pc = "summary"]
       ELSE \E stat_raised \in BOOLEAN :
              tg' = IF stat_raised THEN [tg EXCEPT !.pc = "raised"]
                    ELSE [tg EXCEPT !.pc = "while", !.attempt = 0, !.input_file = FALSE]
    /\ UNCHANGED <<content, net, ret, td, dl, pool, hdr, tm, am, ad, fa>>

\* one pass of while attempt < max_retries: open the file, upload_file
TgParallel ==
    /\ tg.pc = "while"
    /\ IF tg.attempt < upload_max_retries
       THEN \E outcome \in {"open raised", "uploaded", "upload raised"} :
              tg' = CASE outcome = "open raised" -> SendFailed(tg)
                      [] outcome = "uploaded" ->
                           [tg EXCEPT !.pc = "send", !.input_file = TRUE,
                                      !.parallel[tg.video_file] = @ + 1]
                      [] outcome = "upload raised" ->
                           [tg EXCEPT !.attempt = @ + 1, !.input_file = FALSE,
                                      !.parallel[tg.video_file] = @ + 1]
       ELSE tg' = [tg EXCEPT !.pc = "send"]
    /\ UNCHANGED <<content, net, ret, td, dl, pool, hdr, tm, am, ad, fa>>

\* if input_file is None: the standard upload by client.send_file of the path;
\* otherwise client.send_file of the uploaded file; then unlink and count
TgSend ==
    /\ tg.pc = "send"
    /\ \E send_raised \in BOOLEAN, unlinked \in BOOLEAN :
         LET t == IF tg.input_file THEN tg
                  ELSE [tg EXCEPT !.fallback[tg.video_file] = @ + 1]
         IN  tg' = IF send_raised THEN SendFailed(t) ELSE Sent(t, unlinked)
    /\ UNCHANGED <<content, net, ret, td, dl, pool, hdr, tm, am, ad, fa>>

InitTelegram ==
    /\ content = <<>>
    /\ net = <<>>
    /\ ret = [f \in Functions |-> NotCalled]
    /\ td = TdIdle
    /\ dl = DlIdle
    /\ pool = PoolIdle
    /\ hdr = HdrIdle
    /\ tm = TmIdle
    /\ am = AmIdle
    /\ ad = AdIdle
    /\ fa = FaIdle
    /\ \E n \in 1..MaxVideoFiles : tg = TelegramStart(n)

NextTelegram ==
    \/ TgFile
    \/ TgParallel
    \/ TgSend

SpecTelegram == InitTelegram /\ [][NextTelegram]_vars

\* C39: a video file is deleted only after send_file returned for it; a file
\* gets at most 3 calls of upload_file and at most one standard upload, the
\* latter only after 3 failed parallel attempts; and at the summary
\* sent_count + failed_count is the number of video files found
C39_DeleteAfterSendAndCountsAddUp ==
    /\ \A f \in 1..tg.video_files : f \notin tg.on_disk => f \in tg.sent
    /\ \A f \in 1..tg.video_files :
         /\ tg.parallel[f] <= 3
         /\ tg.fallback[f] <= 1
         /\ tg.fallback[f] = 1 => tg.parallel[f] = 3
    /\ tg.pc = "summary" => tg.sent_count + tg.failed_count = tg.video_files

\* at the summary of a run over two or more files: one was sent by the standard
\* upload after 3 failed parallel attempts and deleted, another failed
C39_Witness ==
    /\ tg.pc = "summary"
    /\ \E f, g \in 1..tg.video_files :
         /\ tg.parallel[f] = 3 /\ tg.fallback[f] = 1
         /\ f \in tg.sent /\ f \notin tg.on_disk
         /\ g \notin tg.sent /\ g \in tg.on_disk
    /\ tg.sent_count >= 1
    /\ tg.failed_count >= 1
====
